---- MODULE Spec2Model ----
(***************************************************************************)
(* Expense-Tracker backend: the auth gate (middleware/auth), the account   *)
(* handlers (authController), the Income / Expense handlers                *)
(* (incomeController, expenseController), the mongoose schemas and the AI  *)
(* management write path (aiManagementController), as one state machine    *)
(* over the three document collections.                                    *)
(***************************************************************************)
EXTENDS Integers, Sequences, FiniteSets, TLC

VARIABLES users, incomes, expenses, userSeq, txSeq, now, tokens, registered,
          gate, res, upload, assets, inflight

vars == <<users, incomes, expenses, userSeq, txSeq, now, tokens, registered,
          gate, res, upload, assets, inflight>>

(***************************************************************************)
(* Bounds of the model.                                                    *)
(***************************************************************************)
MaxUsers  == 2      \* accounts ever created
MaxTx     == 2      \* Income + Expense documents ever created
MaxTime   == 4      \* last instant of the clock
JwtExpire == 2      \* process.env.JWT_EXPIRE, in clock units
MonthLen  == 3      \* instants in one calendar month

(***************************************************************************)
(* Strings that the code converts (trim, toLowerCase, regex) are sequences *)
(* of characters; strings that are only compared are TLA+ strings.         *)
(***************************************************************************)
IsSpace(c) == c = " "

RECURSIVE TrimStart(_)
TrimStart(s) == IF s # <<>> /\ IsSpace(Head(s)) THEN TrimStart(Tail(s)) ELSE s

RECURSIVE TrimEnd(_)
TrimEnd(s) ==
  IF s # <<>> /\ IsSpace(s[Len(s)]) THEN TrimEnd(SubSeq(s, 1, Len(s) - 1)) ELSE s

\* String.prototype.trim
Trim(s) == TrimEnd(TrimStart(s))

UpperCase == <<"A", "B", "C", "D", "E", "F", "G", "H", "I", "J", "K", "L", "M",
               "N", "O", "P", "Q", "R", "S", "T", "U", "V", "W", "X", "Y", "Z">>
LowerCase == <<"a", "b", "c", "d", "e", "f", "g", "h", "i", "j", "k", "l", "m",
               "n", "o", "p", "q", "r", "s", "t", "u", "v", "w", "x", "y", "z">>

LowerChar(c) ==
  IF \E i \in DOMAIN UpperCase : UpperCase[i] = c
    THEN LowerCase[CHOOSE i \in DOMAIN UpperCase : UpperCase[i] = c]
  ELSE c

\* String.prototype.toLowerCase
ToLowerCase(s) == [i \in DOMAIN s |-> LowerChar(s[i])]

\* /^[^\s@]+@[^\s@]+\.[^\s@]+$/.test(s)
EmailRegexTest(s) ==
  \E i \in DOMAIN s :
    /\ s[i] = "@"
    /\ i > 1
    /\ \A k \in DOMAIN s : (k # i) => (s[k] # "@" /\ ~IsSpace(s[k]))
    /\ \E j \in DOMAIN s : j > i + 1 /\ j < Len(s) /\ s[j] = "."

(***************************************************************************)
(* ObjectIds.  An ObjectId is a positive integer; its string form (the     *)
(* form carried by URLs and by token payloads) is a record, and a string   *)
(* that is not 24 hex digits has no ObjectId.                              *)
(***************************************************************************)
NullUser == 0
ObjectIdToString(o) == [hex |-> o]
BadIdString == [hex |-> -1]
IsValidObjectId(s) == s.hex > 0
CastObjectId(s) == s.hex

EmptyDoc == [x \in {} |-> 0]
Has(d, f) == f \in DOMAIN d
Put(d, f, v) == (f :> v) @@ d
Drop(d, f) == [x \in (DOMAIN d) \ {f} |-> d[x]]

(***************************************************************************)
(* Token codec (jsonwebtoken as used by generateToken and protect).        *)
(***************************************************************************)
\* jwt.sign({ id }, JWT_SECRET, { expiresIn: JWT_EXPIRE }) at instant t: the
\* payload carries the id in string form, iat and exp = iat + expiresIn.
jwtSign(id, expiresIn, t) ==
  [id |-> ObjectIdToString(id), iat |-> t, exp |-> t + expiresIn, sig |-> "ok"]

generateToken(id, t) == jwtSign(id, JwtExpire, t)

\* A token not signed with JWT_SECRET, and the undefined of "Bearer" with no
\* second word.
ForgedToken == [id |-> ObjectIdToString(1), iat |-> 0, exp |-> 9, sig |-> "bad"]
NoToken     == [id |-> BadIdString, iat |-> 0, exp |-> 0, sig |-> "none"]

\* jwt.verify with ignoreExpiration: the exp claim is not looked at
jwtVerify_ignoreExpiration(tok, t) ==
  IF tok.sig # "ok" THEN [name |-> "JsonWebTokenError", id |-> BadIdString]
  ELSE [name |-> "ok", id |-> tok.id]

\* jwt.verify(token, JWT_SECRET) at instant t: the signature is checked
\* first, then the expiration (clockTimestamp >= payload.exp is expired).
jwtVerify(tok, t) ==
  IF tok.sig # "ok" THEN [name |-> "JsonWebTokenError", id |-> BadIdString]
  ELSE IF t >= tok.exp THEN [name |-> "TokenExpiredError", id |-> BadIdString]
  ELSE [name |-> "ok", id |-> tok.id]

(***************************************************************************)
(* Auth gate.  A request carries an authorization header and a cookie.     *)
(***************************************************************************)
NoHeader == [present |-> FALSE, scheme |-> "", token |-> NoToken]
Bearer(tok) == [present |-> TRUE, scheme |-> "Bearer", token |-> tok]
BasicHeader == [present |-> TRUE, scheme |-> "Basic", token |-> NoToken]
NoCookie == [present |-> FALSE, token |-> NoToken]
Cookie(tok) == [present |-> TRUE, token |-> tok]

\* User.findById(id).select('-password'): the account's ObjectId, NullUser
\* when no account has it
UserFindById(us, s) ==
  IF IsValidObjectId(s) /\ CastObjectId(s) \in DOMAIN us THEN CastObjectId(s)
  ELSE NullUser

\* the verdict of the gate: the carrier it read, the token, the outcome of
\* jwt.verify and the decoded id, the account User.findById returned
\* (NullUser for null or when it was not called) with its status, whether
\* next() was called and req.user, and the response when it rejects
Verdict(carrier, tok, v, account, next, user, status, msg) ==
  [carrier |-> carrier, token |-> tok, verify |-> v.name, decoded |-> v.id,
   account |-> account, next |-> next, user |-> user, status |-> status,
   msg |-> msg]

StatusOf(us, u) == IF u = NullUser THEN "" ELSE us[u].status

protectBearer(us, tok, t) ==
  LET v == jwtVerify(tok, t)
      u == UserFindById(us, v.id)
  IN  IF v.name = "JsonWebTokenError"
        THEN Verdict("bearer", tok, v, NullUser, FALSE, NullUser, 401,
                     "Invalid token")
      ELSE IF v.name = "TokenExpiredError"
        THEN Verdict("bearer", tok, v, NullUser, FALSE, NullUser, 401,
                     "Token expired")
      ELSE IF u = NullUser
        THEN Verdict("bearer", tok, v, u, FALSE, NullUser, 401,
                     "User not found - token invalid")
      ELSE IF us[u].status = "suspended"
        THEN Verdict("bearer", tok, v, u, FALSE, NullUser, 401,
                     "Account suspended. Please contact support.")
      ELSE Verdict("bearer", tok, v, u, TRUE, u, 0, "")

protectCookie(us, tok, t) ==
  LET v == jwtVerify(tok, t)
      u == UserFindById(us, v.id)
  IN  IF v.name # "ok"
        THEN Verdict("cookie", tok, v, NullUser, FALSE, NullUser, 401,
                     "Not authorized, token failed")
      ELSE Verdict("cookie", tok, v, u, TRUE, u, 0, "")

\* protect reading the token cookie before the authorization header
protect_cookieFirst(us, r, t) ==
  IF r.cookie.present /\ r.cookie.token.sig # "none"
    THEN protectCookie(us, r.cookie.token, t)
  ELSE IF r.authorization.present /\ r.authorization.scheme = "Bearer"
    THEN protectBearer(us, r.authorization.token, t)
  ELSE Verdict("none", NoToken, [name |-> "none", id |-> BadIdString],
               NullUser, FALSE, NullUser, 401,
               "Not authorized, no token provided")

\* protect(req, res, next): the gate's verdict on request r at instant t
protect(us, r, t) ==
  IF r.authorization.present /\ r.authorization.scheme = "Bearer"
    THEN protectBearer(us, r.authorization.token, t)
  ELSE IF r.cookie.present /\ r.cookie.token.sig # "none"
    THEN protectCookie(us, r.cookie.token, t)
  ELSE Verdict("none", NoToken, [name |-> "none", id |-> BadIdString],
               NullUser, FALSE, NullUser, 401,
               "Not authorized, no token provided")

\* optional(req, res, next): only the Bearer header is read; an account is
\* attached when its token verifies (req.user is null when no account has
\* the id); nothing is answered and next is called
optional(us, r, t) ==
  IF r.authorization.present /\ r.authorization.scheme = "Bearer"
    THEN LET v == jwtVerify(r.authorization.token, t)
             u == UserFindById(us, v.id)
         IN  IF v.name = "ok"
               THEN Verdict("bearer", r.authorization.token, v, u, TRUE, u, 0, "")
             ELSE Verdict("bearer", r.authorization.token, v, NullUser, TRUE,
                          NullUser, 0, "")
  ELSE Verdict("none", NoToken, [name |-> "none", id |-> BadIdString],
               NullUser, TRUE, NullUser, 0, "")

\* what the gate did with the last request, and when
GateOf(g, us, t) ==
  [carrier |-> g.carrier, token |-> g.token, verify |-> g.verify,
   decoded |-> g.decoded, account |-> g.account,
   status |-> StatusOf(us, g.account), next |-> g.next, user |-> g.user,
   at |-> t]

NoGate ==
  [carrier |-> "open", token |-> NoToken, verify |-> "none",
   decoded |-> BadIdString, account |-> NullUser, status |-> "",
   next |-> TRUE, user |-> NullUser, at |-> 0]

(***************************************************************************)
(* Schemas (models/Expense, models/Income).  A document is a function from *)
(* the paths it has to their values.                                       *)
(***************************************************************************)
ExpenseCategories ==
  {"Food", "Transport", "Entertainment", "Healthcare", "Shopping", "Bills",
   "Education", "Other"}

IncomeCategories ==
  {"Food", "Transport", "Entertainment", "Healthcare", "Shopping", "Bills",
   "Education", "Other"}

\* new Expense(obj): strict schema, so only user, amount, category and date
\* are taken from obj (title and description are not paths of the schema);
\* icon, date and createdAt get their defaults.
expenseSchema(obj, t) ==
  LET kept == [f \in (DOMAIN obj) \cap {"user", "amount", "category", "date"}
                 |-> obj[f]]
  IN  kept @@ [icon |-> "", date |-> t, createdAt |-> t]

\* the paths of an Expense document that fail validation
expenseErrors(d) ==
     (IF ~Has(d, "user") THEN {"user"} ELSE {})
  \cup (IF ~Has(d, "amount") \/ (Has(d, "amount") /\ d.amount < 0)
        THEN {"amount"} ELSE {})
  \cup (IF ~Has(d, "category")
           \/ (Has(d, "category") /\ d.category \notin ExpenseCategories)
        THEN {"category"} ELSE {})

\* new Income(obj): title and description are trimmed by their setters
incomeSchema(obj, t) ==
  LET kept == [f \in (DOMAIN obj) \cap
                 {"user", "title", "amount", "category", "description", "date"}
                 |-> IF f \in {"title", "description"} THEN Trim(obj[f])
                     ELSE obj[f]]
  IN  kept @@ [icon |-> "", date |-> t, createdAt |-> t]

\* the paths of an Income document that fail validation (a required string
\* must be non-empty)
incomeErrors(d) ==
     (IF ~Has(d, "user") THEN {"user"} ELSE {})
  \cup (IF ~Has(d, "title") \/ (Has(d, "title") /\ d.title = <<>>)
        THEN {"title"} ELSE {})
  \cup (IF ~Has(d, "amount") \/ (Has(d, "amount") /\ d.amount < 0)
        THEN {"amount"} ELSE {})
  \cup (IF ~Has(d, "category")
           \/ (Has(d, "category") /\ d.category \notin IncomeCategories)
        THEN {"category"} ELSE {})

\* the object literal of a create call: a key whose value is undefined sets
\* no path
Obj(u, body, t) ==
  [f \in ({"user", "date"} \cup
          ((DOMAIN body) \cap {"title", "amount", "category", "description"}))
     |-> IF f = "user" THEN u
         ELSE IF f = "date"
           THEN (IF Has(body, "date") /\ body.date # 0 THEN body.date ELSE t)
         ELSE body[f]]

\* Model.findById(req.params.id): "cast" for a malformed id, "null" when no
\* document has the id, "doc" otherwise
FindById(coll, s) ==
  IF ~IsValidObjectId(s) THEN "cast"
  ELSE IF CastObjectId(s) \notin DOMAIN coll THEN "null"
  ELSE "doc"

\* the result of a handler: the response and the collections it leaves
\* a response without a payload
NoData == <<>>

\* success is the success key of the JSON body: "true", "false", or
\* "undefined" for a body without the key (the bodies of the Expense, Income
\* and dashboard handlers have none)
Result(status, msg, inc, exp, seq) ==
  [status |-> status, msg |-> msg, incomes |-> inc, expenses |-> exp,
   txSeq |-> seq, data |-> NoData, success |-> "undefined"]

\* the result r with the JSON payload d
Json(r, d) == [r EXCEPT !.data = d]

\* the result r answered as { success: true, ... }, or as { success: false,
\* message } by the catch of the handler
Envelope(r) ==
  [r EXCEPT !.success = IF r.status < 400 THEN "true" ELSE "false"]

\* the ids of S in ascending (insertion) order
RECURSIVE IdSeq(_)
IdSeq(S) ==
  IF S = {} THEN <<>>
  ELSE LET m == CHOOSE x \in S : \A y \in S : x <= y
       IN  <<m>> \o IdSeq(S \ {m})

\* Model.find({ user: u }): the documents of u with their _id, in insertion
\* order
Find(coll, u) ==
  LET ids == IdSeq({i \in DOMAIN coll : coll[i].user = u})
  IN  [k \in 1..Len(ids) |-> Put(coll[ids[k]], "_id", ids[k])]

\* Model.find({}): every document of the collection
FindAll(coll) ==
  LET ids == IdSeq(DOMAIN coll)
  IN  [k \in 1..Len(ids) |-> Put(coll[ids[k]], "_id", ids[k])]

\* d put into the date-descending sequence q, after the documents of its date
RECURSIVE InsertByDate(_, _)
InsertByDate(q, d) ==
  IF q = <<>> THEN <<d>>
  ELSE IF Head(q).date >= d.date THEN <<Head(q)>> \o InsertByDate(Tail(q), d)
  ELSE <<d>> \o q

\* .sort({ date: -1 })
RECURSIVE SortByDateDesc(_)
SortByDateDesc(q) ==
  IF q = <<>> THEN <<>>
  ELSE InsertByDate(SortByDateDesc(SubSeq(q, 1, Len(q) - 1)), q[Len(q)])

(***************************************************************************)
(* Expense handlers (controllers/expenseController).  u is req.user as the *)
(* gate left it (NullUser when the gate attached null), s the :id of the   *)
(* URL, body the JSON body (a function from the keys it has).  Reading     *)
(* req.user._id of a null req.user throws a TypeError inside the try.      *)
(***************************************************************************)
\* getExpenses with Expense.find({}) in place of the filter of line 6
getExpenses_unfiltered(u) ==
  IF u = NullUser THEN Result(500, "TypeError", incomes, expenses, txSeq)
  ELSE Json(Result(200, "list", incomes, expenses, txSeq),
            SortByDateDesc(FindAll(expenses)))

\* getExpenses: Expense.find({ user: req.user._id }).sort({ date: -1 })
getExpenses(u) ==
  IF u = NullUser THEN Result(500, "TypeError", incomes, expenses, txSeq)
  ELSE Json(Result(200, "list", incomes, expenses, txSeq),
            SortByDateDesc(Find(expenses, u)))

\* addExpense: Expense.create({ user, title, amount, category, description,
\* date: date || Date.now() })
addExpense(u, body) ==
  IF u = NullUser THEN Result(400, "TypeError", incomes, expenses, txSeq)
  ELSE LET d == expenseSchema(Obj(u, body, now), now)
       IN  IF expenseErrors(d) # {} THEN Result(400, "ValidationError", incomes, expenses, txSeq)
           ELSE Result(201, "created", incomes, Put(expenses, txSeq + 1, d), txSeq + 1)

\* deleteExpense without the comparison of lines 40-42
deleteExpense_unchecked(u, s) ==
  LET f == FindById(expenses, s)
      id == CastObjectId(s)
  IN  IF f = "cast" THEN Result(500, "CastError", incomes, expenses, txSeq)
      ELSE IF f = "null" THEN Result(404, "Expense not found", incomes, expenses, txSeq)
      ELSE IF u = NullUser THEN Result(500, "TypeError", incomes, expenses, txSeq)
      ELSE Result(200, "Expense removed", incomes, Drop(expenses, id), txSeq)

\* deleteExpense
deleteExpense(u, s) ==
  LET f == FindById(expenses, s)
      id == CastObjectId(s)
  IN  IF f = "cast" THEN Result(500, "CastError", incomes, expenses, txSeq)
      ELSE IF f = "null" THEN Result(404, "Expense not found", incomes, expenses, txSeq)
      ELSE IF u = NullUser THEN Result(500, "TypeError", incomes, expenses, txSeq)
      ELSE IF ObjectIdToString(expenses[id].user) # ObjectIdToString(u)
        THEN Result(401, "Not authorized", incomes, expenses, txSeq)
      ELSE Result(200, "Expense removed", incomes, Drop(expenses, id), txSeq)

\* expense.title and expense.description are not paths of the schema: the
\* assignments of lines 94 and 97 set plain properties that save() ignores
updateExpense(u, s, body) ==
  LET f == FindById(expenses, s)
      id == CastObjectId(s)
  IN  IF f = "cast" THEN Result(400, "CastError", incomes, expenses, txSeq)
      ELSE IF f = "null" THEN Result(404, "Expense not found", incomes, expenses, txSeq)
      ELSE IF u = NullUser THEN Result(400, "TypeError", incomes, expenses, txSeq)
      ELSE IF ObjectIdToString(expenses[id].user) # ObjectIdToString(u)
        THEN Result(401, "Not authorized", incomes, expenses, txSeq)
      ELSE
      LET d == expenses[id]
          t1 == d
          t2 == IF Has(body, "amount") /\ body.amount # 0
                  THEN Put(t1, "amount", body.amount) ELSE t1
          t3 == IF Has(body, "category") /\ body.category # ""
                  THEN Put(t2, "category", body.category) ELSE t2
          t4 == t3
          t5 == IF Has(body, "date") /\ body.date # 0
                  THEN Put(t4, "date", body.date) ELSE t4
      IN  IF expenseErrors(t5) # {} THEN Result(400, "ValidationError", incomes, expenses, txSeq)
          ELSE Result(200, "updated", incomes, Put(expenses, id, t5), txSeq)

\* getExpense without the comparison of lines 125-127
getExpense_unchecked(u, s) ==
  LET f == FindById(expenses, s)
      id == CastObjectId(s)
  IN  IF f = "cast" THEN Result(500, "CastError", incomes, expenses, txSeq)
      ELSE IF f = "null" THEN Result(404, "Expense not found", incomes, expenses, txSeq)
      ELSE IF u = NullUser THEN Result(500, "TypeError", incomes, expenses, txSeq)
      ELSE Result(200, "doc", incomes, expenses, txSeq)

\* getExpense
getExpense(u, s) ==
  LET f == FindById(expenses, s)
      id == CastObjectId(s)
  IN  IF f = "cast" THEN Result(500, "CastError", incomes, expenses, txSeq)
      ELSE IF f = "null" THEN Result(404, "Expense not found", incomes, expenses, txSeq)
      ELSE IF u = NullUser THEN Result(500, "TypeError", incomes, expenses, txSeq)
      ELSE IF ObjectIdToString(expenses[id].user) # ObjectIdToString(u)
        THEN Result(401, "Not authorized", incomes, expenses, txSeq)
      ELSE Result(200, "doc", incomes, expenses, txSeq)

(***************************************************************************)
(* Income handlers (controllers/incomeController).                         *)
(***************************************************************************)
\* getIncomes: Income.find({ user: req.user._id }).sort({ date: -1 })
getIncomes(u) ==
  IF u = NullUser THEN Result(500, "TypeError", incomes, expenses, txSeq)
  ELSE Json(Result(200, "list", incomes, expenses, txSeq),
            SortByDateDesc(Find(incomes, u)))

\* addIncome: Income.create({ user, title, amount, category, description,
\* date: date || Date.now() })
addIncome(u, body) ==
  IF u = NullUser THEN Result(400, "TypeError", incomes, expenses, txSeq)
  ELSE LET d == incomeSchema(Obj(u, body, now), now)
       IN  IF incomeErrors(d) # {} THEN Result(400, "ValidationError", incomes, expenses, txSeq)
           ELSE Result(201, "created", Put(incomes, txSeq + 1, d), expenses, txSeq + 1)

\* deleteIncome
deleteIncome(u, s) ==
  LET f == FindById(incomes, s)
      id == CastObjectId(s)
  IN  IF f = "cast" THEN Result(500, "CastError", incomes, expenses, txSeq)
      ELSE IF f = "null" THEN Result(404, "Income not found", incomes, expenses, txSeq)
      ELSE IF u = NullUser THEN Result(500, "TypeError", incomes, expenses, txSeq)
      ELSE IF ObjectIdToString(incomes[id].user) # ObjectIdToString(u)
        THEN Result(401, "Not authorized", incomes, expenses, txSeq)
      ELSE Result(200, "Income removed", Drop(incomes, id), expenses, txSeq)

\* updateIncome with description || '' in place of line 107
updateIncome_overwrite(u, s, body) ==
  LET f == FindById(incomes, s)
      id == CastObjectId(s)
  IN  IF f = "cast" THEN Result(400, "CastError", incomes, expenses, txSeq)
      ELSE IF f = "null" THEN Result(404, "Income not found", incomes, expenses, txSeq)
      ELSE IF u = NullUser THEN Result(400, "TypeError", incomes, expenses, txSeq)
      ELSE IF ObjectIdToString(incomes[id].user) # ObjectIdToString(u)
        THEN Result(401, "Not authorized", incomes, expenses, txSeq)
      ELSE
      LET d == incomes[id]
          t1 == IF Has(body, "title") /\ body.title # <<>>
                  THEN Put(d, "title", Trim(body.title)) ELSE d
          t2 == IF Has(body, "amount") /\ body.amount # 0
                  THEN Put(t1, "amount", body.amount) ELSE t1
          t3 == IF Has(body, "category") /\ body.category # ""
                  THEN Put(t2, "category", body.category) ELSE t2
          t4 == Put(t3, "description",
                    IF Has(body, "description") THEN Trim(body.description)
                    ELSE <<>>)
          t5 == IF Has(body, "date") /\ body.date # 0
                  THEN Put(t4, "date", body.date) ELSE t4
      IN  IF incomeErrors(t5) # {} THEN Result(400, "ValidationError", incomes, expenses, txSeq)
          ELSE Result(200, "updated", Put(incomes, id, t5), expenses, txSeq)

\* title and description are paths of the schema (trimmed on set)
updateIncome(u, s, body) ==
  LET f == FindById(incomes, s)
      id == CastObjectId(s)
  IN  IF f = "cast" THEN Result(400, "CastError", incomes, expenses, txSeq)
      ELSE IF f = "null" THEN Result(404, "Income not found", incomes, expenses, txSeq)
      ELSE IF u = NullUser THEN Result(400, "TypeError", incomes, expenses, txSeq)
      ELSE IF ObjectIdToString(incomes[id].user) # ObjectIdToString(u)
        THEN Result(401, "Not authorized", incomes, expenses, txSeq)
      ELSE
      LET d == incomes[id]
          t1 == IF Has(body, "title") /\ body.title # <<>>
                  THEN Put(d, "title", Trim(body.title)) ELSE d
          t2 == IF Has(body, "amount") /\ body.amount # 0
                  THEN Put(t1, "amount", body.amount) ELSE t1
          t3 == IF Has(body, "category") /\ body.category # ""
                  THEN Put(t2, "category", body.category) ELSE t2
          t4 == IF Has(body, "description")
                  THEN Put(t3, "description", Trim(body.description)) ELSE t3
          t5 == IF Has(body, "date") /\ body.date # 0
                  THEN Put(t4, "date", body.date) ELSE t4
      IN  IF incomeErrors(t5) # {} THEN Result(400, "ValidationError", incomes, expenses, txSeq)
          ELSE Result(200, "updated", Put(incomes, id, t5), expenses, txSeq)

\* getIncome
getIncome(u, s) ==
  LET f == FindById(incomes, s)
      id == CastObjectId(s)
  IN  IF f = "cast" THEN Result(500, "CastError", incomes, expenses, txSeq)
      ELSE IF f = "null" THEN Result(404, "Income not found", incomes, expenses, txSeq)
      ELSE IF u = NullUser THEN Result(500, "TypeError", incomes, expenses, txSeq)
      ELSE IF ObjectIdToString(incomes[id].user) # ObjectIdToString(u)
        THEN Result(401, "Not authorized", incomes, expenses, txSeq)
      ELSE Result(200, "doc", incomes, expenses, txSeq)

(***************************************************************************)
(* Aggregation (controllers/dashboardController and the AI controllers).   *)
(* Instants are integers; a month is MonthLen consecutive instants.  A     *)
(* JavaScript number that a division produces is a fraction n / d, with    *)
(* d = 0 for the two values that are not finite.                           *)
(***************************************************************************)
\* moment().startOf('month') and moment().endOf('month'): the first and the
\* last instant of the month of t
StartOfMonth(t) == (t \div MonthLen) * MonthLen
EndOfMonth(t) == StartOfMonth(t) + MonthLen - 1

NaN == [n |-> 0, d |-> 0]
Infinity == [n |-> 1, d |-> 0]
Zero == [n |-> 0, d |-> 1]

\* a / b of two numbers, b >= 0
Div(a, b) ==
  IF b # 0 THEN [n |-> a, d |-> b]
  ELSE IF a = 0 THEN NaN
  ELSE IF a > 0 THEN Infinity
  ELSE [n |-> -1, d |-> 0]

\* x < k and x > k of a number x and an integer k (false of NaN)
LessThan(x, k) == IF x.d = 0 THEN x.n < 0 ELSE x.n < k * x.d
GreaterThan(x, k) == IF x.d = 0 THEN x.n > 0 ELSE x.n > k * x.d

\* x * 100
Times100(x) == IF x.d = 0 THEN x ELSE [n |-> x.n * 100, d |-> x.d]

\* x.toFixed(1): tenths, a half rounded away from 0; 'NaN' and 'Infinity' stay
toFixed1(x) ==
  IF x.d = 0 THEN x
  ELSE IF x.n >= 0 THEN [n |-> (20 * x.n + x.d) \div (2 * x.d), d |-> 10]
  ELSE [n |-> 0 - ((20 * (0 - x.n) + x.d) \div (2 * x.d)), d |-> 10]

\* reduce((sum, t) => sum + t.amount, 0)
RECURSIVE SumAmount(_)
SumAmount(q) == IF q = <<>> THEN 0 ELSE Head(q).amount + SumAmount(Tail(q))

\* { $group: { _id: '$category', total: { $sum: '$amount' }, count: { $sum: 1 } } }
GroupByCategory(q) ==
  {[_id |-> c,
    total |-> SumAmount(SelectSeq(q, LAMBDA t : t.category = c)),
    count |-> Len(SelectSeq(q, LAMBDA t : t.category = c))]
     : c \in {q[k].category : k \in 1..Len(q)}}

\* { $match: { date: { $gte: a, $lte: b } } }
MatchDate(q, a, b) == SelectSeq(q, LAMBDA t : t.date >= a /\ t.date <= b)

\* .limit(5).select('title amount category date')
Recent(q) ==
  LET top == SubSeq(q, 1, IF Len(q) < 5 THEN Len(q) ELSE 5)
  IN  [k \in 1..Len(top) |->
         [f \in (DOMAIN top[k]) \cap {"_id", "title", "amount", "category", "date"}
            |-> top[k][f]]]

\* getDashboardData
getDashboardData(u) ==
  IF u = NullUser THEN Result(500, "TypeError", incomes, expenses, txSeq)
  ELSE
    LET inc == Find(incomes, u)
        exp == Find(expenses, u)
        a == StartOfMonth(now)
        b == EndOfMonth(now)
    IN  Json(Result(200, "dashboard", incomes, expenses, txSeq),
             [summary |->
                [totalIncome |-> SumAmount(inc),
                 totalExpense |-> SumAmount(exp),
                 monthlyIncome |-> SumAmount(MatchDate(inc, a, b)),
                 monthlyExpense |-> SumAmount(MatchDate(exp, a, b)),
                 balance |-> SumAmount(inc) - SumAmount(exp)],
              charts |->
                [incomeByCategory |-> GroupByCategory(inc),
                 expenseByCategory |-> GroupByCategory(exp)],
              recentTransactions |->
                [incomes |-> Recent(SortByDateDesc(inc)),
                 expenses |-> Recent(SortByDateDesc(exp))]])

\* the categories of q, in the order of their first documents (the keys of
\* an object filled by forEach)
RECURSIVE Categories(_)
Categories(q) ==
  IF q = <<>> THEN <<>>
  ELSE LET rest == Categories(SubSeq(q, 1, Len(q) - 1))
           c == q[Len(q)].category
       IN  IF \E k \in 1..Len(rest) : rest[k] = c THEN rest
           ELSE Append(rest, c)

InCategory(q, c) == SelectSeq(q, LAMBDA t : t.category = c)

\* e inserted after the entries of q with total >= e.total
RECURSIVE InsertByTotal(_, _)
InsertByTotal(q, e) ==
  IF q = <<>> THEN <<e>>
  ELSE IF Head(q).total >= e.total
         THEN <<Head(q)>> \o InsertByTotal(Tail(q), e)
       ELSE <<e>> \o q

\* .sort((a, b) => b.total - a.total), a stable sort
RECURSIVE SortByTotalDesc(_)
SortByTotalDesc(q) ==
  IF q = <<>> THEN <<>>
  ELSE InsertByTotal(SortByTotalDesc(SubSeq(q, 1, Len(q) - 1)), q[Len(q)])

\* analyzeByCategory: the object keyed by category
analyzeByCategory(q) ==
  LET total == SumAmount(q)
  IN  [c \in {q[k].category : k \in 1..Len(q)} |->
         [total |-> SumAmount(InCategory(q, c)),
          count |-> Len(InCategory(q, c)),
          average |-> Div(SumAmount(InCategory(q, c)), Len(InCategory(q, c))),
          percentage |-> IF total > 0
                           THEN Times100(Div(SumAmount(InCategory(q, c)), total))
                         ELSE Zero]]

\* getMonth() and getFullYear() of d equal those of the clock t
SameMonth(d, t) == StartOfMonth(d) = StartOfMonth(t)

\* calculateFinancialMetrics, at instant t
calculateFinancialMetrics(inc, exp, t) ==
  LET totalIncome == SumAmount(inc)
      totalExpenses == SumAmount(exp)
  IN  [totalIncome |-> totalIncome,
       totalExpenses |-> totalExpenses,
       netSavings |-> totalIncome - totalExpenses,
       savingsRate |-> IF totalIncome > 0
                         THEN Times100(Div(totalIncome - totalExpenses, totalIncome))
                       ELSE Zero,
       currentMonthIncome |->
         SumAmount(SelectSeq(inc, LAMBDA d : SameMonth(d.date, t))),
       currentMonthExpense |->
         SumAmount(SelectSeq(exp, LAMBDA d : SameMonth(d.date, t))),
       incomeByCategory |-> analyzeByCategory(inc),
       expenseByCategory |-> analyzeByCategory(exp),
       transactionCount |-> [incomes |-> Len(inc), expenses |-> Len(exp)]]

\* moment(d).isBetween(a, b): both bounds exclusive
isBetween(d, a, b) == a < d /\ d < b

\* generateFinancialSummary of the first aiManagementController (no guard on
\* the divisor), at instant t
generateFinancialSummaryFirst(inc, exp, t) ==
  LET a == StartOfMonth(t)
      b == EndOfMonth(t)
      currentMonthIncome ==
        SumAmount(SelectSeq(inc, LAMBDA d : isBetween(d.date, a, b)))
      currentMonthExpense ==
        SumAmount(SelectSeq(exp, LAMBDA d : isBetween(d.date, a, b)))
      cs == Categories(exp)
  IN  [currentMonthIncome |-> currentMonthIncome,
       currentMonthExpense |-> currentMonthExpense,
       currentMonthSavings |-> currentMonthIncome - currentMonthExpense,
       expenseByCategory |->
         SortByTotalDesc(
           [k \in 1..Len(cs) |->
              [category |-> cs[k],
               total |-> SumAmount(InCategory(exp, cs[k])),
               percentage |->
                 toFixed1(Times100(Div(SumAmount(InCategory(exp, cs[k])),
                                       currentMonthExpense)))]]),
       totalIncomes |-> Len(inc),
       totalExpenses |-> Len(exp)]

\* generateFinancialSummary of the second aiManagementController, at instant t
generateFinancialSummary(inc, exp, t) ==
  LET a == StartOfMonth(t)
      b == EndOfMonth(t)
      currentMonthIncome ==
        SumAmount(SelectSeq(inc, LAMBDA d : isBetween(d.date, a, b)))
      currentMonthExpense ==
        SumAmount(SelectSeq(exp, LAMBDA d : isBetween(d.date, a, b)))
      cs == Categories(exp)
  IN  [currentMonthIncome |-> currentMonthIncome,
       currentMonthExpense |-> currentMonthExpense,
       currentMonthSavings |-> currentMonthIncome - currentMonthExpense,
       expenseByCategory |->
         SortByTotalDesc(
           [k \in 1..Len(cs) |->
              [category |-> cs[k],
               total |-> SumAmount(InCategory(exp, cs[k])),
               percentage |->
                 IF currentMonthExpense > 0
                   THEN toFixed1(Times100(Div(SumAmount(InCategory(exp, cs[k])),
                                              currentMonthExpense)))
                 ELSE [n |-> 0, d |-> 10]]]),
       totalIncomes |-> Len(inc),
       totalExpenses |-> Len(exp),
       incomes |-> inc,
       expenses |-> exp]

\* getPeriodData, period 'month': the documents of u dated in the month of t
\* and in the month before
getPeriodData(u, t) ==
  LET a == StartOfMonth(t)
      b == EndOfMonth(t)
  IN  [currentData |->
         [incomes |-> MatchDate(Find(incomes, u), a, b),
          expenses |-> MatchDate(Find(expenses, u), a, b)],
       previousData |->
         [incomes |-> MatchDate(Find(incomes, u), a - MonthLen, a - 1),
          expenses |-> MatchDate(Find(expenses, u), a - MonthLen, a - 1)]]

\* previous ? ((current - previous) / previous * 100).toFixed(1) : 0
Change(current, previous) ==
  IF previous # 0 THEN toFixed1(Times100(Div(current - previous, previous)))
  ELSE Zero

\* prepareAnalysisData
prepareAnalysisData(currentData, previousData) ==
  LET currentIncome == SumAmount(currentData.incomes)
      currentExpense == SumAmount(currentData.expenses)
      previousIncome == SumAmount(previousData.incomes)
      previousExpense == SumAmount(previousData.expenses)
      cs == Categories(currentData.expenses)
      sorted == SortByTotalDesc(
                  [k \in 1..Len(cs) |->
                     [category |-> cs[k],
                      total |-> SumAmount(InCategory(currentData.expenses, cs[k]))]])
      top == SubSeq(sorted, 1, IF Len(sorted) < 5 THEN Len(sorted) ELSE 5)
  IN  [summary |->
         [currentIncome |-> currentIncome,
          currentExpense |-> currentExpense,
          currentSavings |-> currentIncome - currentExpense,
          previousIncome |-> previousIncome,
          previousExpense |-> previousExpense,
          previousSavings |-> previousIncome - previousExpense,
          incomeChange |-> Change(currentIncome, previousIncome),
          expenseChange |-> Change(currentExpense, previousExpense)],
       categories |->
         [k \in 1..Len(top) |->
            [category |-> top[k].category,
             amount |-> top[k].total,
             percentage |->
               toFixed1(Times100(Div(top[k].total, currentExpense)))]],
       transactionCount |->
         [incomes |-> Len(currentData.incomes),
          expenses |-> Len(currentData.expenses)]]

\* String.prototype.includes
Includes(text, w) ==
  \E i \in 0..(Len(text) - Len(w)) : SubSeq(text, i + 1, i + Len(w)) = w

(***************************************************************************)
(* Tips and opportunities (aiController).  A tip is its type, the category *)
(* its title names, its title and its priority.                            *)
(***************************************************************************)
PassiveIncomeSavings == 1000   \* netSavings > 1000
HighExpense == 500             \* exp.amount > 500
Week == 1                      \* moment().subtract(7, 'days'), in instants

Tip(type, category, title, priority) ==
  [type |-> type, category |-> category, title |-> title, priority |-> priority]

\* list.slice(0, 5)
Slice5(q) == SubSeq(q, 1, IF Len(q) < 5 THEN Len(q) ELSE 5)

\* the rules of generateIncomeTips that match, in the order evaluated
incomeRules(financialData) ==
    (IF Cardinality(DOMAIN financialData.incomeByCategory) <= 1
       THEN <<Tip("DIVERSIFICATION", "", "Diversify Income Sources", "HIGH")>>
     ELSE <<>>)
    \o (IF "Salary" \notin DOMAIN financialData.incomeByCategory
           /\ financialData.totalIncome > 0
          THEN <<Tip("STABILITY", "", "Create Income Stability", "MEDIUM")>>
        ELSE <<>>)
    \o (IF financialData.totalIncome > 0
          THEN <<Tip("GROWTH", "", "Increase Earnings Potential", "LOW")>>
        ELSE <<>>)
    \o (IF financialData.netSavings > PassiveIncomeSavings
          THEN <<Tip("PASSIVE_INCOME", "", "Build Passive Income", "MEDIUM")>>
        ELSE <<>>)

\* generateIncomeTips
generateIncomeTips(financialData) == Slice5(incomeRules(financialData))

\* the rules of generateExpenseTips that match, in the order evaluated
expenseRules(financialData, exp, t) ==
  LET high == SelectSeq(Categories(exp),
                LAMBDA c : GreaterThan(financialData.expenseByCategory[c].percentage, 30))
      subscriptions ==
        SelectSeq(exp, LAMBDA d :
          /\ Has(d, "title")
          /\ d.title # <<>>
          /\ d.category \in {"Entertainment", "Bills", "Other"}
          /\ Includes(ToLowerCase(d.title),
                      <<"s", "u", "b", "s", "c", "r", "i", "p", "t", "i", "o", "n">>))
      recent == SelectSeq(exp, LAMBDA d : d.date > t - Week)
  IN  [k \in 1..Len(high) |->
         Tip("REDUCTION", high[k], "Reduce Spending", "HIGH")]
      \o (IF Len(subscriptions) > 3
            THEN <<Tip("SUBSCRIPTION", "", "Review Subscriptions", "MEDIUM")>>
          ELSE <<>>)
      \o (IF Len(recent) > 10
            THEN <<Tip("IMPULSE", "", "Monitor Impulse Spending", "MEDIUM")>>
          ELSE <<>>)

\* generateExpenseTips
generateExpenseTips(financialData, exp, t) ==
  Slice5(expenseRules(financialData, exp, t))

\* netSavings < monthlyExpenses * 3, with
\* monthlyExpenses = currentMonthExpense || (totalExpenses / 12) || 0
BelowCoverage(financialData) ==
  IF financialData.currentMonthExpense # 0
    THEN financialData.netSavings < 3 * financialData.currentMonthExpense
  ELSE IF financialData.totalExpenses # 0
    THEN 12 * financialData.netSavings < 3 * financialData.totalExpenses
  ELSE financialData.netSavings < 0

\* generateSavingTips without the rule of a savings rate below 10
generateSavingTips_noLowRateRule(financialData) ==
  LET savingsRate == financialData.savingsRate
  IN  (IF ~LessThan(savingsRate, 10) /\ LessThan(savingsRate, 20)
         THEN <<Tip("SAVINGS_GROWTH", "", "Increase Savings Rate", "MEDIUM")>>
       ELSE <<>>)
      \o (IF ~LessThan(savingsRate, 20)
            THEN <<Tip("INVESTMENT", "", "Optimize Savings", "LOW")>>
          ELSE <<>>)
      \o (IF BelowCoverage(financialData)
            THEN <<Tip("EMERGENCY_FUND", "", "Strengthen Emergency Fund", "HIGH")>>
          ELSE <<>>)

\* generateSavingTips (the savings rate is a finite number)
generateSavingTips(financialData) ==
  LET savingsRate == financialData.savingsRate
  IN  (IF LessThan(savingsRate, 10)
         THEN <<Tip("EMERGENCY_FUND", "", "Build Emergency Fund", "HIGH")>>
       ELSE <<>>)
      \o (IF ~LessThan(savingsRate, 10) /\ LessThan(savingsRate, 20)
            THEN <<Tip("SAVINGS_GROWTH", "", "Increase Savings Rate", "MEDIUM")>>
          ELSE <<>>)
      \o (IF ~LessThan(savingsRate, 20)
            THEN <<Tip("INVESTMENT", "", "Optimize Savings", "LOW")>>
          ELSE <<>>)
      \o (IF BelowCoverage(financialData)
            THEN <<Tip("EMERGENCY_FUND", "", "Strengthen Emergency Fund", "HIGH")>>
          ELSE <<>>)

\* getPersonalizedTips: category is 'income', 'expense', 'saving', or
\* anything else (answered as 'all')
getPersonalizedTips(u, category) ==
  Envelope(
  IF u = NullUser
    THEN Result(500, "Failed to generate tips", incomes, expenses, txSeq)
  ELSE
    LET inc == Find(incomes, u)
        exp == Find(expenses, u)
        financialData == calculateFinancialMetrics(inc, exp, now)
    IN  Json(Result(200, "tips", incomes, expenses, txSeq),
             [success |-> TRUE,
              category |-> IF category = "" THEN "all" ELSE category,
              tips |->
                IF category = "income" THEN generateIncomeTips(financialData)
                ELSE IF category = "expense"
                  THEN generateExpenseTips(financialData, exp, now)
                ELSE IF category = "saving" THEN generateSavingTips(financialData)
                ELSE generateIncomeTips(financialData)
                     \o generateExpenseTips(financialData, exp, now)
                     \o generateSavingTips(financialData)]))

\* e inserted after the expenses of q with amount >= e.amount
RECURSIVE InsertByAmount(_, _)
InsertByAmount(q, e) ==
  IF q = <<>> THEN <<e>>
  ELSE IF Head(q).amount >= e.amount
         THEN <<Head(q)>> \o InsertByAmount(Tail(q), e)
       ELSE <<e>> \o q

\* .sort((a, b) => b.amount - a.amount), a stable sort
RECURSIVE SortByAmountDesc(_)
SortByAmountDesc(q) ==
  IF q = <<>> THEN <<>>
  ELSE InsertByAmount(SortByAmountDesc(SubSeq(q, 1, Len(q) - 1)), q[Len(q)])

\* the lowercased titles of q, in the order of their first documents
RECURSIVE Titles(_)
Titles(q) ==
  IF q = <<>> THEN <<>>
  ELSE LET rest == Titles(SubSeq(q, 1, Len(q) - 1))
           d == q[Len(q)]
       IN  IF ~Has(d, "title") \/ d.title = <<>> THEN rest
           ELSE IF \E k \in 1..Len(rest) : rest[k] = ToLowerCase(d.title) THEN rest
           ELSE Append(rest, ToLowerCase(d.title))

\* the entries of identifySavingsOpportunities before its slice: the titles
\* met more than 3 times, then the 5 largest expenses above HighExpense
opportunityRules(exp) ==
  LET Count(title) ==
        Len(SelectSeq(exp, LAMBDA d :
              Has(d, "title") /\ d.title # <<>> /\ ToLowerCase(d.title) = title))
      recurring == SelectSeq(Titles(exp), LAMBDA title : Count(title) > 3)
      highExpenses ==
        Slice5(SortByAmountDesc(SelectSeq(exp, LAMBDA d : d.amount > HighExpense)))
  IN  [k \in 1..Len(recurring) |->
         [type |-> "RECURRING_EXPENSE", title |-> recurring[k],
          amount |-> 0, category |-> ""]]
      \o [k \in 1..Len(highExpenses) |->
            [type |-> "HIGH_VALUE", title |-> <<>>,
             amount |-> highExpenses[k].amount,
             category |-> highExpenses[k].category]]

\* identifySavingsOpportunities
identifySavingsOpportunities(exp) == Slice5(opportunityRules(exp))

\* assessFinancialRisk
assessFinancialRisk(inc, exp) ==
  LET totalIncome == SumAmount(inc)
      netSavings == SumAmount(inc) - SumAmount(exp)
      savingsRate == IF totalIncome > 0 THEN Times100(Div(netSavings, totalIncome))
                     ELSE Zero
  IN  IF netSavings < 0 THEN "HIGH"
      ELSE IF LessThan(savingsRate, 10) THEN "MEDIUM"
      ELSE IF LessThan(savingsRate, 20) THEN "LOW"
      ELSE "VERY_LOW"

\* getSpendingAnalysis (its spending patterns and predictions are left out
\* of the answer modelled)
getSpendingAnalysis(u) ==
  Envelope(
  IF u = NullUser
    THEN Result(500, "Failed to analyze spending", incomes, expenses, txSeq)
  ELSE Json(Result(200, "Spending analysis completed", incomes, expenses, txSeq),
            [success |-> TRUE,
             analysis |->
               [savingsOpportunities |->
                  identifySavingsOpportunities(Find(expenses, u)),
                riskAssessment |->
                  assessFinancialRisk(Find(incomes, u), Find(expenses, u))]]))

(***************************************************************************)
(* The external text generation (axios.post to the provider).  A call ends *)
(* in one of ExternalOutcomes; a text is the provider's, a fallback built  *)
(* from the sentences chosen, or undefined.                                *)
(***************************************************************************)
ExternalOutcomes ==
  {"unconfigured",   \* no API key in the environment
   "content",        \* 2xx whose body holds the content
   "network",        \* the request fails (axios rejects)
   "timeout",        \* the request times out (axios rejects)
   "status",         \* a status outside 2xx (axios rejects)
   "noChoices",      \* 2xx whose body has no choices: reading [0] throws
   "noContent"}      \* 2xx whose choices[0].message has no content

ExternalText == [source |-> "external", parts |-> <<>>]
UndefinedText == [source |-> "undefined", parts |-> <<>>]
FallbackText(parts) == [source |-> "fallback", parts |-> parts]

\* generateFallbackInsights: the sentences pushed, in order
generateFallbackInsights(analysisData) ==
  LET summary == analysisData.summary
      categories == analysisData.categories
      savingsRate == Times100(Div(summary.currentSavings, summary.currentIncome))
  IN  FallbackText(
        (IF GreaterThan(summary.expenseChange, 10) THEN <<"spending_up">>
         ELSE IF LessThan(summary.expenseChange, -5) THEN <<"spending_down">>
         ELSE <<>>)
        \o (IF LessThan(savingsRate, 10) THEN <<"savings_low">>
            ELSE <<"savings_good">>)
        \o (IF categories # <<>> /\ GreaterThan(categories[1].percentage, 30)
              THEN <<"category_high">> ELSE <<>>)
        \o (IF summary.currentSavings > 0 THEN <<"savings_praise">> ELSE <<>>))

\* generateAIInsights of the controller that calls the provider, the call
\* ending in outcome o
generateAIInsights(analysisData, o) ==
  IF o = "content" THEN ExternalText
  ELSE IF o = "noContent" THEN UndefinedText
  ELSE generateFallbackInsights(analysisData)

\* getFinancialInsights of the controller that calls the provider
\* (period 'month')
getFinancialInsightsPeriod(u, o) ==
  Envelope(
  IF u = NullUser
    THEN Result(500, "Failed to generate AI insights", incomes, expenses, txSeq)
  ELSE
    LET p == getPeriodData(u, now)
        analysisData == prepareAnalysisData(p.currentData, p.previousData)
    IN  Json(Result(200, "insights", incomes, expenses, txSeq),
             [success |-> TRUE,
              insights |-> generateAIInsights(analysisData, o),
              summary |-> analysisData.summary]))

\* generateFallbackSummary: the words chosen for its sentence
generateFallbackSummary(summaryData) ==
  FallbackText(
    <<IF GreaterThan(summaryData.expenseChange, 0) THEN "increased"
      ELSE "decreased",
      IF summaryData.topCategories # <<>>
        THEN summaryData.topCategories[1].category ELSE "expenses",
      IF summaryData.current.savings > 0 THEN "savings_praise"
      ELSE "savings_focus">>)

\* generateAISummary, the call ending in outcome o
generateAISummary(summaryData, o) ==
  IF o = "content" THEN ExternalText
  ELSE IF o = "noContent" THEN UndefinedText
  ELSE generateFallbackSummary(summaryData)

\* the summaryData of getQuickSummary for account u at instant t
quickSummaryData(u, t) ==
  LET p == getPeriodData(u, t)
      currentIncome == SumAmount(p.currentData.incomes)
      currentExpense == SumAmount(p.currentData.expenses)
      previousIncome == SumAmount(p.previousData.incomes)
      previousExpense == SumAmount(p.previousData.expenses)
      cs == Categories(p.currentData.expenses)
      sorted == SortByTotalDesc(
                  [k \in 1..Len(cs) |->
                     [category |-> cs[k],
                      total |-> SumAmount(InCategory(p.currentData.expenses, cs[k]))]])
      top == SubSeq(sorted, 1, IF Len(sorted) < 3 THEN Len(sorted) ELSE 3)
  IN  [current |-> [income |-> currentIncome, expense |-> currentExpense,
                    savings |-> currentIncome - currentExpense],
       previous |-> [income |-> previousIncome, expense |-> previousExpense,
                     savings |-> previousIncome - previousExpense],
       topCategories |->
         [k \in 1..Len(top) |->
            [category |-> top[k].category, amount |-> top[k].total]],
       incomeChange |-> Change(currentIncome, previousIncome),
       expenseChange |-> Change(currentExpense, previousExpense)]

\* getQuickSummary
getQuickSummary(u, o) ==
  Envelope(
  IF u = NullUser
    THEN Result(500, "Failed to generate AI summary", incomes, expenses, txSeq)
  ELSE Json(Result(200, "summary", incomes, expenses, txSeq),
            [success |-> TRUE,
             summary |-> generateAISummary(quickSummaryData(u, now), o),
             data |-> quickSummaryData(u, now)]))

(***************************************************************************)
(* AI management write path (aiManagementController: aiFinancialManagement *)
(* with an action of the request body).                                    *)
(***************************************************************************)
Undefined == <<"u", "n", "d", "e", "f", "i", "n", "e", "d">>

\* `${x}` of a key of data
Interp(data, f) == IF Has(data, f) THEN data[f] ELSE Undefined

\* expenseKeywords, in the order of Object.entries
expenseKeywords ==
  <<
    [category |-> "Food", keywords |->
      {<<"f", "o", "o", "d">>,
       <<"g", "r", "o", "c", "e", "r", "y">>,
       <<"r", "e", "s", "t", "a", "u", "r", "a", "n", "t">>,
       <<"d", "i", "n", "i", "n", "g">>,
       <<"m", "e", "a", "l">>,
       <<"c", "a", "f", "e">>,
       <<"s", "u", "p", "e", "r", "m", "a", "r", "k", "e", "t">>,
       <<"l", "u", "n", "c", "h">>,
       <<"d", "i", "n", "n", "e", "r">>,
       <<"b", "r", "e", "a", "k", "f", "a", "s", "t">>,
       <<"c", "o", "f", "f", "e", "e">>}],
    [category |-> "Transport", keywords |->
      {<<"t", "r", "a", "n", "s", "p", "o", "r", "t">>,
       <<"f", "u", "e", "l">>,
       <<"g", "a", "s">>,
       <<"u", "b", "e", "r">>,
       <<"l", "y", "f", "t">>,
       <<"t", "a", "x", "i">>,
       <<"b", "u", "s">>,
       <<"t", "r", "a", "i", "n">>,
       <<"m", "e", "t", "r", "o">>,
       <<"s", "u", "b", "w", "a", "y">>,
       <<"p", "a", "r", "k", "i", "n", "g">>,
       <<"t", "o", "l", "l">>}],
    [category |-> "Bills", keywords |->
      {<<"b", "i", "l", "l">>,
       <<"u", "t", "i", "l", "i", "t", "y">>,
       <<"e", "l", "e", "c", "t", "r", "i", "c">>,
       <<"w", "a", "t", "e", "r">>,
       <<"i", "n", "t", "e", "r", "n", "e", "t">>,
       <<"p", "h", "o", "n", "e">>,
       <<"r", "e", "n", "t">>,
       <<"m", "o", "r", "t", "g", "a", "g", "e">>,
       <<"i", "n", "s", "u", "r", "a", "n", "c", "e">>,
       <<"s", "u", "b", "s", "c", "r", "i", "p", "t", "i", "o", "n">>}],
    [category |-> "Shopping", keywords |->
      {<<"s", "h", "o", "p", "p", "i", "n", "g">>,
       <<"b", "u", "y">>,
       <<"p", "u", "r", "c", "h", "a", "s", "e">>,
       <<"m", "a", "l", "l">>,
       <<"s", "t", "o", "r", "e">>,
       <<"a", "m", "a", "z", "o", "n">>,
       <<"o", "n", "l", "i", "n", "e">>,
       <<"c", "l", "o", "t", "h", "i", "n", "g">>,
       <<"e", "l", "e", "c", "t", "r", "o", "n", "i", "c", "s">>,
       <<"f", "a", "s", "h", "i", "o", "n">>}],
    [category |-> "Entertainment", keywords |->
      {<<"m", "o", "v", "i", "e">>,
       <<"c", "o", "n", "c", "e", "r", "t">>,
       <<"g", "a", "m", "e">>,
       <<"n", "e", "t", "f", "l", "i", "x">>,
       <<"s", "p", "o", "t", "i", "f", "y">>,
       <<"e", "n", "t", "e", "r", "t", "a", "i", "n", "m", "e", "n", "t">>,
       <<"h", "o", "b", "b", "y">>,
       <<"s", "p", "o", "r", "t", "s">>,
       <<"v", "a", "c", "a", "t", "i", "o", "n">>,
       <<"t", "r", "a", "v", "e", "l">>}],
    [category |-> "Healthcare", keywords |->
      {<<"m", "e", "d", "i", "c", "a", "l">>,
       <<"d", "o", "c", "t", "o", "r">>,
       <<"h", "o", "s", "p", "i", "t", "a", "l">>,
       <<"m", "e", "d", "i", "c", "i", "n", "e">>,
       <<"p", "h", "a", "r", "m", "a", "c", "y">>,
       <<"h", "e", "a", "l", "t", "h">>,
       <<"d", "e", "n", "t", "a", "l">>,
       <<"v", "i", "s", "i", "o", "n">>,
       <<"i", "n", "s", "u", "r", "a", "n", "c", "e">>}],
    [category |-> "Education", keywords |->
      {<<"e", "d", "u", "c", "a", "t", "i", "o", "n">>,
       <<"c", "o", "u", "r", "s", "e">>,
       <<"b", "o", "o", "k">>,
       <<"t", "u", "i", "t", "i", "o", "n">>,
       <<"s", "c", "h", "o", "o", "l">>,
       <<"l", "e", "a", "r", "n", "i", "n", "g">>,
       <<"t", "r", "a", "i", "n", "i", "n", "g">>,
       <<"w", "o", "r", "k", "s", "h", "o", "p">>,
       <<"s", "e", "m", "i", "n", "a", "r">>}]
  >>

\* suggestExpenseCategory: the first category one of whose keywords occurs
\* in the lower-cased "title description", else a guess from the amount
\* (undefined < 30 is false)
suggestExpenseCategory(data) ==
  LET text == ToLowerCase(Interp(data, "title") \o <<" ">> \o Interp(data, "description"))
      hits == {i \in DOMAIN expenseKeywords :
                 \E w \in expenseKeywords[i].keywords : Includes(text, w)}
      first == CHOOSE i \in hits : \A j \in hits : i <= j
  IN  IF hits # {} THEN expenseKeywords[first].category
      ELSE IF Has(data, "amount") /\ data.amount < 30 THEN "Food"
      ELSE IF Has(data, "amount") /\ data.amount < 100 THEN "Shopping"
      ELSE IF Has(data, "amount") /\ data.amount < 500 THEN "Bills"
      ELSE "Other"

\* the object literal of the two handleAdd functions: category is the one
\* computed, date is data.date || new Date()
AiObj(u, data, category, t) ==
  [f \in ({"user", "date", "category"} \cup
          ((DOMAIN data) \cap {"title", "amount", "description"}))
     |-> IF f = "user" THEN u
         ELSE IF f = "category" THEN category
         ELSE IF f = "date"
           THEN (IF Has(data, "date") /\ data.date # 0 THEN data.date ELSE t)
         ELSE data[f]]

\* handleAddIncome: Income.create with category data.category || 'Other'; a
\* failed create is rethrown as Error('Failed to add income: ...')
handleAddIncome(u, data) ==
  LET category == IF Has(data, "category") /\ data.category # ""
                    THEN data.category ELSE "Other"
      d == incomeSchema(AiObj(u, data, category, now), now)
  IN  IF incomeErrors(d) # {}
        THEN Result(0, "Failed to add income", incomes, expenses, txSeq)
      ELSE Result(200, "Income added successfully", Put(incomes, txSeq + 1, d),
                  expenses, txSeq + 1)

\* handleAddExpense: the category is data.category, or the suggested one when
\* data has none
handleAddExpense(u, data) ==
  LET category == IF Has(data, "category") /\ data.category # ""
                    THEN data.category ELSE suggestExpenseCategory(data)
      d == expenseSchema(AiObj(u, data, category, now), now)
  IN  IF expenseErrors(d) # {}
        THEN Result(0, "Failed to add expense", incomes, expenses, txSeq)
      ELSE Result(200, "Expense recorded", incomes,
                  Put(expenses, txSeq + 1, d), txSeq + 1)

\* handleSpecificAction: the two writing actions; every other action only
\* reads the summary
handleSpecificAction(u, action, hasData, data) ==
  IF action \in {"add_income", "add_expense"} /\ ~hasData
    THEN Result(0, "TypeError", incomes, expenses, txSeq)
  ELSE IF action = "add_income" THEN handleAddIncome(u, data)
  ELSE IF action = "add_expense" THEN handleAddExpense(u, data)
  ELSE Result(200, "advice", incomes, expenses, txSeq)

\* the words of a message that handleNaturalLanguageRequest answers by
\* adding an income from the text, and an expense
IncomePatterns ==
  {<<"a", "d", "d", " ", "i", "n", "c", "o", "m", "e">>,
   <<"n", "e", "w", " ", "i", "n", "c", "o", "m", "e">>,
   <<"r", "e", "c", "e", "i", "v", "e", "d">>,
   <<"e", "a", "r", "n", "e", "d">>}

ExpensePatterns ==
  {<<"a", "d", "d", " ", "e", "x", "p", "e", "n", "s", "e">>,
   <<"s", "p", "e", "n", "t">>,
   <<"b", "o", "u", "g", "h", "t">>,
   <<"p", "a", "i", "d", " ", "f", "o", "r">>}

AddPatterns == IncomePatterns \cup ExpensePatterns

\* the words answered by handleQueryRequest
QueryPatterns ==
  {<<"h", "o", "w", " ", "m", "u", "c", "h">>,
   <<"s", "h", "o", "w", " ", "m", "e">>,
   <<"t", "e", "l", "l", " ", "m", "e">>,
   <<"w", "h", "a", "t", " ", "i", "s", " ", "m", "y">>}

\* the words answered by the savings, budget and health advice
AdvicePatterns ==
  {<<"s", "a", "v", "i", "n", "g", "s">>,
   <<"s", "a", "v", "e", " ", "m", "o", "n", "e", "y">>,
   <<"s", "a", "v", "e", " ", "m", "o", "r", "e">>,
   <<"b", "u", "d", "g", "e", "t">>,
   <<"s", "p", "e", "n", "d", "i", "n", "g", " ", "l", "i", "m", "i", "t">>,
   <<"h", "o", "w", " ", "m", "u", "c", "h", " ", "s", "h", "o", "u", "l", "d", " ", "i", " ", "s", "p", "e", "n", "d">>,
   <<"f", "i", "n", "a", "n", "c", "i", "a", "l", " ", "h", "e", "a", "l", "t", "h">>,
   <<"h", "o", "w", " ", "a", "m", " ", "i", " ", "d", "o", "i", "n", "g">>,
   <<"f", "i", "n", "a", "n", "c", "i", "a", "l", " ", "s", "i", "t", "u", "a", "t", "i", "o", "n">>}

\* the words of a message that handleNaturalLanguageRequest answers from
\* the summary, without the provider
LocalPatterns == QueryPatterns \cup AdvicePatterns

IncludesAny(text, ws) == \E w \in ws : Includes(text, w)

\* getEnhancedFallbackResponse: the type of the answer chosen
getEnhancedFallbackResponse(message, financialSummary) ==
  LET lowerMessage == ToLowerCase(message)
  IN  [source |-> "fallback",
       type |->
         IF IncludesAny(lowerMessage, {<<"i", "n", "v", "e", "s", "t", "m", "e", "n", "t">>,
                           <<"i", "n", "v", "e", "s", "t">>,
                           <<"s", "t", "o", "c", "k">>})
           THEN "fallback_advice"
         ELSE IF IncludesAny(lowerMessage, {<<"d", "e", "b", "t">>,
                           <<"l", "o", "a", "n">>,
                           <<"c", "r", "e", "d", "i", "t", " ", "c", "a", "r", "d">>})
           THEN "fallback_guidance"
         ELSE IF IncludesAny(lowerMessage, {<<"r", "e", "t", "i", "r", "e", "m", "e", "n", "t">>,
                           <<"4", "0", "1", "k">>,
                           <<"p", "e", "n", "s", "i", "o", "n">>})
           THEN "fallback_advice"
         ELSE IF financialSummary.currentMonthIncome = 0 THEN "setup_guidance"
         ELSE "fallback_general"]

\* validateOpenAIResponse, of the body that outcome o delivers
validateOpenAIResponse(o) == o = "content"

\* handleAIQuery, the call ending in outcome o
handleAIQuery(message, financialSummary, o) ==
  IF o = "unconfigured" THEN getEnhancedFallbackResponse(message, financialSummary)
  ELSE IF o \in {"network", "timeout", "status"}
    THEN getEnhancedFallbackResponse(message, financialSummary)
  ELSE IF validateOpenAIResponse(o) THEN [source |-> "openai", type |-> "ai_response"]
  ELSE getEnhancedFallbackResponse(message, financialSummary)

\* message.match(/\$?(\d+(?:\.\d{2})?)/) and parseFloat of its group, for
\* messages whose numbers have no decimal part: the value of the first run of
\* digits, 0 when the message has no digit (null; `!amount` treats both alike)
Digits == <<"0", "1", "2", "3", "4", "5", "6", "7", "8", "9">>

IsDigit(c) == \E i \in DOMAIN Digits : Digits[i] = c

DigitValue(c) == (CHOOSE i \in DOMAIN Digits : Digits[i] = c) - 1

RECURSIVE parseFloat(_)
parseFloat(ds) ==
  IF ds = <<>> THEN 0
  ELSE 10 * parseFloat(SubSeq(ds, 1, Len(ds) - 1)) + DigitValue(ds[Len(ds)])

amountMatch(message) ==
  LET at == {i \in DOMAIN message : IsDigit(message[i])}
      first == CHOOSE i \in at : \A j \in at : i <= j
      last == CHOOSE k \in first..Len(message) :
                /\ \A j \in first..k : IsDigit(message[j])
                /\ (k = Len(message) \/ ~IsDigit(message[k + 1]))
  IN  IF at = {} THEN 0 ELSE parseFloat(SubSeq(message, first, last))

\* the if / else-if chain of category detection: the first rule one of whose
\* words the message includes (as typed, not lower-cased), else the default
DetectCategory(message, textRules, title, category) ==
  LET hits == {i \in DOMAIN textRules :
                 \E w \in textRules[i].words : Includes(message, w)}
      first == CHOOSE i \in hits : \A j \in hits : i <= j
  IN  IF hits = {} THEN [title |-> title, category |-> category]
      ELSE [title |-> textRules[first].title,
            category |-> textRules[first].category]

incomeTextRules ==
  <<
    [words |-> {<<"s", "a", "l", "a", "r", "y">>,
                <<"p", "a", "y", "c", "h", "e", "c", "k">>,
                <<"w", "a", "g", "e">>},
     title |-> <<"S", "a", "l", "a", "r", "y">>,
     category |-> "Salary"],
    [words |-> {<<"f", "r", "e", "e", "l", "a", "n", "c", "e">>,
                <<"c", "o", "n", "t", "r", "a", "c", "t">>,
                <<"g", "i", "g">>},
     title |-> <<"F", "r", "e", "e", "l", "a", "n", "c", "e", " ", "W", "o", "r", "k">>,
     category |-> "Freelance"],
    [words |-> {<<"i", "n", "v", "e", "s", "t", "m", "e", "n", "t">>,
                <<"d", "i", "v", "i", "d", "e", "n", "d">>,
                <<"s", "t", "o", "c", "k">>},
     title |-> <<"I", "n", "v", "e", "s", "t", "m", "e", "n", "t", " ", "I", "n", "c", "o", "m", "e">>,
     category |-> "Investment"],
    [words |-> {<<"b", "o", "n", "u", "s">>,
                <<"c", "o", "m", "m", "i", "s", "s", "i", "o", "n">>},
     title |-> <<"B", "o", "n", "u", "s">>,
     category |-> "Bonus"],
    [words |-> {<<"b", "u", "s", "i", "n", "e", "s", "s">>,
                <<"s", "i", "d", "e", " ", "h", "u", "s", "t", "l", "e">>},
     title |-> <<"B", "u", "s", "i", "n", "e", "s", "s", " ", "I", "n", "c", "o", "m", "e">>,
     category |-> "Business"]
  >>

expenseTextRules ==
  <<
    [words |-> {<<"f", "o", "o", "d">>,
                <<"r", "e", "s", "t", "a", "u", "r", "a", "n", "t">>,
                <<"g", "r", "o", "c", "e", "r", "y">>,
                <<"l", "u", "n", "c", "h">>,
                <<"d", "i", "n", "n", "e", "r">>},
     title |-> <<"F", "o", "o", "d", " ", "E", "x", "p", "e", "n", "s", "e">>,
     category |-> "Food"],
    [words |-> {<<"t", "r", "a", "n", "s", "p", "o", "r", "t">>,
                <<"f", "u", "e", "l">>,
                <<"g", "a", "s">>,
                <<"u", "b", "e", "r">>,
                <<"t", "a", "x", "i">>,
                <<"b", "u", "s">>},
     title |-> <<"T", "r", "a", "n", "s", "p", "o", "r", "t", "a", "t", "i", "o", "n">>,
     category |-> "Transport"],
    [words |-> {<<"b", "i", "l", "l">>,
                <<"u", "t", "i", "l", "i", "t", "y">>,
                <<"e", "l", "e", "c", "t", "r", "i", "c">>,
                <<"w", "a", "t", "e", "r">>,
                <<"i", "n", "t", "e", "r", "n", "e", "t">>,
                <<"p", "h", "o", "n", "e">>},
     title |-> <<"U", "t", "i", "l", "i", "t", "y", " ", "B", "i", "l", "l">>,
     category |-> "Bills"],
    [words |-> {<<"s", "h", "o", "p", "p", "i", "n", "g">>,
                <<"b", "u", "y">>,
                <<"p", "u", "r", "c", "h", "a", "s", "e">>,
                <<"a", "m", "a", "z", "o", "n">>,
                <<"m", "a", "l", "l">>},
     title |-> <<"S", "h", "o", "p", "p", "i", "n", "g">>,
     category |-> "Shopping"],
    [words |-> {<<"e", "n", "t", "e", "r", "t", "a", "i", "n", "m", "e", "n", "t">>,
                <<"m", "o", "v", "i", "e">>,
                <<"n", "e", "t", "f", "l", "i", "x">>,
                <<"g", "a", "m", "e">>,
                <<"c", "o", "n", "c", "e", "r", "t">>},
     title |-> <<"E", "n", "t", "e", "r", "t", "a", "i", "n", "m", "e", "n", "t">>,
     category |-> "Entertainment"],
    [words |-> {<<"h", "e", "a", "l", "t", "h">>,
                <<"m", "e", "d", "i", "c", "a", "l">>,
                <<"d", "o", "c", "t", "o", "r">>,
                <<"h", "o", "s", "p", "i", "t", "a", "l">>,
                <<"m", "e", "d", "i", "c", "i", "n", "e">>},
     title |-> <<"H", "e", "a", "l", "t", "h", "c", "a", "r", "e">>,
     category |-> "Healthcare"]
  >>

AddedViaAI == <<"A", "d", "d", "e", "d", " ", "v", "i", "a", " ", "A", "I", ":", " ">>

\* handleAddIncomeFromText
handleAddIncomeFromText(u, message) ==
  LET amount == amountMatch(message)
      found == DetectCategory(message, incomeTextRules, <<"I", "n", "c", "o", "m", "e">>, "Other")
  IN  IF amount = 0
        THEN Json(Result(200, "requires amount", incomes, expenses, txSeq),
                  [success |-> TRUE,
                   reply |-> [source |-> "rules", type |-> "requires"]])
      ELSE handleAddIncome(u, [title |-> found.title, amount |-> amount,
                               category |-> found.category,
                               description |-> AddedViaAI \o message])

\* handleAddExpenseFromText
handleAddExpenseFromText(u, message) ==
  LET amount == amountMatch(message)
      found == DetectCategory(message, expenseTextRules, <<"E", "x", "p", "e", "n", "s", "e">>, "Other")
  IN  IF amount = 0
        THEN Json(Result(200, "requires amount", incomes, expenses, txSeq),
                  [success |-> TRUE,
                   reply |-> [source |-> "rules", type |-> "requires"]])
      ELSE handleAddExpense(u, [title |-> found.title, amount |-> amount,
                                category |-> found.category,
                                description |-> AddedViaAI \o message])

\* handleNaturalLanguageRequest: the first branch whose words the
\* lower-cased message includes
handleNaturalLanguageRequest(u, message, financialSummary, o) ==
  IF IncludesAny(ToLowerCase(message), IncomePatterns)
    THEN handleAddIncomeFromText(u, message)
  ELSE IF IncludesAny(ToLowerCase(message), ExpensePatterns)
    THEN handleAddExpenseFromText(u, message)
  ELSE IF IncludesAny(ToLowerCase(message), QueryPatterns)
    THEN Json(Result(200, "advice", incomes, expenses, txSeq),
              [success |-> TRUE, reply |-> [source |-> "rules", type |-> "query"]])
  ELSE IF IncludesAny(ToLowerCase(message), AdvicePatterns)
    THEN Json(Result(200, "advice", incomes, expenses, txSeq),
              [success |-> TRUE, reply |-> [source |-> "rules", type |-> "local"]])
  ELSE Json(Result(200, "query", incomes, expenses, txSeq),
            [success |-> TRUE,
             reply |-> handleAIQuery(message, financialSummary, o)])

\* processAIManagementRequest with the summary given: an action ("" when the
\* body has none), else a message (<<>> when the body has none), else the
\* default overview
processAIManagementRequest(u, message, action, hasData, data, financialSummary, o) ==
  IF action # "" THEN handleSpecificAction(u, action, hasData, data)
  ELSE IF message # <<>>
    THEN handleNaturalLanguageRequest(u, message, financialSummary, o)
  ELSE Json(Result(200, "overview", incomes, expenses, txSeq),
            [success |-> TRUE, summary |-> financialSummary])

\* handleSavingsAdvice of the first controller: the rate is the quotient
\* itself, whatever the income of the month
handleSavingsAdviceFirst(financialSummary) ==
  LET savingsRate == Times100(Div(financialSummary.currentMonthSavings,
                                  financialSummary.currentMonthIncome))
  IN  [rate |-> toFixed1(savingsRate),
       advice |-> IF LessThan(savingsRate, 10) THEN "increase"
                  ELSE IF LessThan(savingsRate, 20) THEN "good_start"
                  ELSE "excellent"]

\* handleSavingsAdvice of the second controller: no rate without income
handleSavingsAdvice(financialSummary) ==
  LET savingsRate == Times100(Div(financialSummary.currentMonthSavings,
                                  financialSummary.currentMonthIncome))
  IN  IF financialSummary.currentMonthIncome = 0
        THEN [rate |-> Zero, advice |-> "no_income"]
      ELSE [rate |-> toFixed1(savingsRate),
            advice |-> IF LessThan(savingsRate, 0) THEN "overspending"
                       ELSE IF LessThan(savingsRate, 10) THEN "increase"
                       ELSE IF LessThan(savingsRate, 20) THEN "good_start"
                       ELSE IF LessThan(savingsRate, 30) THEN "great"
                       ELSE "excellent"]

\* aiFinancialManagement with the action 'savings_advice', of the first
\* controller and of the second
savingsAdviceFirst(u) ==
  Envelope(
  IF u = NullUser
    THEN Result(500, "AI management service temporarily unavailable",
                incomes, expenses, txSeq)
  ELSE Json(Result(200, "advice", incomes, expenses, txSeq),
            [success |-> TRUE,
             message |->
               handleSavingsAdviceFirst(
                 generateFinancialSummaryFirst(
                   SortByDateDesc(Find(incomes, u)),
                   SortByDateDesc(Find(expenses, u)), now))]))

savingsAdvice(u) ==
  Envelope(
  IF u = NullUser
    THEN Result(500, "AI management service temporarily unavailable",
                incomes, expenses, txSeq)
  ELSE Json(Result(200, "advice", incomes, expenses, txSeq),
            [success |-> TRUE,
             message |->
               handleSavingsAdvice(
                 generateFinancialSummary(
                   SortByDateDesc(Find(incomes, u)),
                   SortByDateDesc(Find(expenses, u)), now))]))

\* aiFinancialManagement of the first aiManagementController (its requests
\* without message)
aiFinancialManagementFirst(u, action, hasData, data) ==
  Envelope(
  LET r == IF action # "" THEN handleSpecificAction(u, action, hasData, data)
           ELSE Json(Result(200, "overview", incomes, expenses, txSeq),
                     [success |-> TRUE,
                      summary |->
                        generateFinancialSummaryFirst(
                          SortByDateDesc(Find(incomes, u)),
                          SortByDateDesc(Find(expenses, u)), now)])
  IN  IF u = NullUser \/ r.status = 0
        THEN Result(500, "AI management service temporarily unavailable",
                    incomes, expenses, txSeq)
      ELSE r)

\* aiFinancialManagement: whatever is thrown below it (status 0) is answered
\* 500 by its catch; o is how the call to the provider ends, if one is made
aiFinancialManagement(u, message, action, hasData, data, o) ==
  Envelope(
  LET r == processAIManagementRequest(u, message, action, hasData, data,
             generateFinancialSummary(SortByDateDesc(Find(incomes, u)),
                                      SortByDateDesc(Find(expenses, u)), now),
             o)
  IN  IF u = NullUser \/ r.status = 0
        THEN Result(500, "AI management service temporarily unavailable",
                    incomes, expenses, txSeq)
      ELSE r)

(***************************************************************************)
(* The text reports (downloadExpenses, downloadIncomes).                   *)
(***************************************************************************)
\* new Date(d).toLocaleDateString(): the calendar date of instant d as text
toLocaleDateString(d) == [localeDate |-> d]

\* the lines forEach appends for one document: the numbered title, amount,
\* category and date, and the description when it is truthy
ReportItem(doc, index) ==
  LET item == [index |-> index, title |-> Interp(doc, "title"),
               amount |-> doc.amount, category |-> doc.category,
               date |-> toLocaleDateString(doc.date)]
  IN  IF Has(doc, "description") /\ doc.description # <<>>
        THEN item @@ [description |-> doc.description]
      ELSE item

\* textContent: heading, one item per document, total and record count
Report(heading, q) ==
  [heading |-> heading,
   items |-> [k \in 1..Len(q) |-> ReportItem(q[k], k)],
   total |-> SumAmount(q),
   records |-> Len(q)]

\* downloadExpenses with Expense.find({}) in place of the filter of line 53
downloadExpenses_unfiltered(u) ==
  IF u = NullUser THEN Result(500, "TypeError", incomes, expenses, txSeq)
  ELSE Json(Result(200, "report", incomes, expenses, txSeq),
            Report("EXPENSE TRACKER REPORT", SortByDateDesc(FindAll(expenses))))

\* downloadExpenses
downloadExpenses(u) ==
  IF u = NullUser THEN Result(500, "TypeError", incomes, expenses, txSeq)
  ELSE Json(Result(200, "report", incomes, expenses, txSeq),
            Report("EXPENSE TRACKER REPORT", SortByDateDesc(Find(expenses, u))))

\* downloadIncomes
downloadIncomes(u) ==
  IF u = NullUser THEN Result(500, "TypeError", incomes, expenses, txSeq)
  ELSE Json(Result(200, "report", incomes, expenses, txSeq),
            Report("INCOME TRACKER REPORT", SortByDateDesc(Find(incomes, u))))

(***************************************************************************)
(* Account model (models/User: unique lower-cased email, salted password   *)
(* hash compared by matchPassword, status active / suspended).             *)
(***************************************************************************)
\* the pre-save hash of a password
HashPassword(p) == [hash |-> p]

\* user.matchPassword(entered)
matchPassword(user, entered) == user.password = HashPassword(entered)

\* User.findOne({ email: e }): the accounts whose stored email is e
UserFindOne(us, e) == {u \in DOMAIN us : us[u].email = e}

\* User.findOne({ email: e, _id: { $ne: self } })
UserFindOther(us, e, self) == UserFindOne(us, e) \ {self}

\* the images of the cloud storage: assets maps every secure_url ever
\* returned to "stored", or to "destroyed" once the image was deleted
NoAssets == <<>>

SecureUrls == {"cloudinary/a", "cloudinary/b", "cloudinary/c"}

\* user.profileImage && user.profileImage.includes('cloudinary')
includesCloudinary(imageUrl) == imageUrl \in SecureUrls

\* the asset of imageUrl exists in the storage
AssetStored(as, imageUrl) ==
  imageUrl \in DOMAIN as /\ as[imageUrl] = "stored"

\* deleteFromCloudinary when uploader.destroy succeeds: the image of the
\* url is gone
deleteFromCloudinary(as, imageUrl) ==
  IF imageUrl = "" \/ imageUrl \notin DOMAIN as THEN as
  ELSE [as EXCEPT ![imageUrl] = "destroyed"]

\* the result of an account handler: the response, the collections it
\* leaves and the token of the response (NoToken when it has none)
AccountResult(status, msg, us, inc, seq, tok) ==
  [status |-> status, msg |-> msg, users |-> us, incomes |-> inc,
   userSeq |-> seq, token |-> tok, data |-> NoData,
   success |-> IF status < 400 THEN "true" ELSE "false", assets |-> assets]

AccountError(status, msg) ==
  AccountResult(status, msg, users, incomes, userSeq, NoToken)

\* `!x?.trim()` of a key of the body
Blank(body, f) == ~Has(body, f) \/ Trim(body[f]) = <<>>

\* `!x` of a key of the body
Missing(body, f) == ~Has(body, f) \/ body[f] = <<>>

(***************************************************************************)
(* Account handlers (controllers/authController), for requests that carry  *)
(* no profile image file.                                                  *)
(***************************************************************************)
\* the field checks of register, in their order: the message of the first
\* that fails, "" when all pass
registerChecks(body) ==
  IF Blank(body, "firstName") THEN "First name is required"
  ELSE IF Blank(body, "lastName") THEN "Last name is required"
  ELSE IF Blank(body, "email") THEN "Email is required"
  ELSE IF ~EmailRegexTest(Trim(body.email))
    THEN "Please provide a valid email address"
  ELSE IF Missing(body, "password") THEN "Password is required"
  ELSE IF Missing(body, "confirmPassword") THEN "Please confirm your password"
  ELSE IF Len(body.password) < 6
    THEN "Password must be at least 6 characters long"
  ELSE IF body.password # body.confirmPassword THEN "Passwords do not match"
  ELSE ""

\* register looking the email up as typed
register_caseSensitive(body) ==
  IF registerChecks(body) # "" THEN AccountError(400, registerChecks(body))
  ELSE IF UserFindOne(users, Trim(body.email)) # {}
    THEN AccountError(400, "User already exists with this email address")
  ELSE
    LET id == userSeq + 1
        user == [firstName |-> Trim(body.firstName),
                 lastName |-> Trim(body.lastName),
                 email |-> Trim(ToLowerCase(body.email)),
                 password |-> HashPassword(body.password),
                 profileImage |-> "", status |-> "active"]
    IN  AccountResult(201, "User registered successfully", Put(users, id, user),
                      incomes, id, generateToken(id, now))

\* register
register(body) ==
  IF registerChecks(body) # "" THEN AccountError(400, registerChecks(body))
  ELSE IF UserFindOne(users, Trim(ToLowerCase(body.email))) # {}
    THEN AccountError(400, "User already exists with this email address")
  ELSE
    LET id == userSeq + 1
        user == [firstName |-> Trim(body.firstName),
                 lastName |-> Trim(body.lastName),
                 email |-> Trim(ToLowerCase(body.email)),
                 password |-> HashPassword(body.password),
                 profileImage |-> "", status |-> "active"]
    IN  AccountResult(201, "User registered successfully", Put(users, id, user),
                      incomes, id, generateToken(id, now))

\* the title of the sample income ('Welcome Income')
WelcomeIncome == <<"W", "e", "l", "c", "o", "m", "e">>

\* register of the second authController: after User.create it saves a
\* sample Income of amount 0 for the new account; an error of that save is
\* caught and logged.  The result carries the Income store and its counter.
registerSampleIncome(body) ==
  LET h == register(body)
      sample == incomeSchema([user |-> h.userSeq, title |-> WelcomeIncome,
                              amount |-> 0, category |-> "Other",
                              description |-> WelcomeIncome, date |-> now],
                             now)
  IN  IF h.status = 201 /\ incomeErrors(sample) = {}
        THEN [txSeq |-> txSeq + 1] @@
             [h EXCEPT !.incomes = Put(incomes, txSeq + 1, sample)]
      ELSE [txSeq |-> txSeq] @@ h

\* Income.countDocuments({ user: id })
CountDocuments(coll, id) == Cardinality({i \in DOMAIN coll : coll[i].user = id})

login(body) ==
  IF Missing(body, "email") \/ Missing(body, "password")
    THEN AccountError(400, "Email and password are required")
  ELSE
    LET found == UserFindOne(users, Trim(ToLowerCase(body.email)))
        ok == {u \in found : matchPassword(users[u], body.password)}
        user == CHOOSE u \in ok : TRUE
    IN  IF ok # {}
          THEN Json(AccountResult(200, "Login successful", users, incomes,
                                  userSeq, generateToken(user, now)),
                    [_id |-> user,
                     stats |-> [incomeCount |-> CountDocuments(incomes, user)]])
        ELSE AccountError(401, "Invalid email or password")

\* updateProfile: the email is changed without the format check of register
updateProfile(u, body) ==
  IF u = NullUser THEN AccountError(500, "Error updating profile")
  ELSE IF u \notin DOMAIN users THEN AccountError(404, "User not found")
  ELSE
    LET user == users[u]
        n1 == IF ~Missing(body, "firstName")
                THEN [user EXCEPT !.firstName = Trim(body.firstName)] ELSE user
        n2 == IF ~Missing(body, "lastName")
                THEN [n1 EXCEPT !.lastName = Trim(body.lastName)] ELSE n1
        change == ~Missing(body, "email") /\ body.email # user.email
        email == Trim(ToLowerCase(body.email))
        n3 == IF change THEN [n2 EXCEPT !.email = email] ELSE n2
    IN  IF change /\ UserFindOther(users, email, u) # {}
          THEN AccountError(400, "Email already exists")
        ELSE AccountResult(200, "Profile updated successfully",
                           Put(users, u, n3), incomes, userSeq,
                           generateToken(u, now))

\* updateProfile of a request with req.files.profileImage: after the fields
\* of the body, the file is checked, the old image is deleted from the
\* storage, and the new one uploaded; o is "returned" when uploadToCloudinary
\* returns (the image url is then stored) and "thrown" when it throws after
\* its attempts.  user.save() is the last step.
updateProfileImage(u, body, file, o, url) ==
  LET fields == updateProfile(u, body)
      old == users[u].profileImage
      deleted == IF includesCloudinary(old)
                   THEN deleteFromCloudinary(assets, old) ELSE assets
  IN  IF fields.status # 200 THEN fields
      ELSE IF ~file.image
        THEN AccountError(400, "Only image files are allowed")
      ELSE IF file.large
        THEN AccountError(400, "File size must be less than 5MB")
      ELSE IF o = "thrown"
        THEN [AccountError(400, "Error uploading image to cloud storage")
                EXCEPT !.assets = deleted]
      ELSE [AccountResult(200, "Profile updated successfully with new image",
                          [fields.users EXCEPT ![u].profileImage = url],
                          incomes, userSeq, fields.token)
              EXCEPT !.assets = Put(deleted, url, "stored")]

\* the unique index of the email path of the accounts: a document whose
\* stored email another document holds is refused (E11000)
DuplicateKey(us, e, self) ==
  \E u \in DOMAIN us : u # self /\ us[u].email = e

\* register from User.create on, for a body that passed the checks: the
\* create stores the document unless the index refuses it; the catch
\* answers code 11000 with 400
registerCreate_asTyped(body) ==
  LET id == userSeq + 1
      user == [firstName |-> Trim(body.firstName),
               lastName |-> Trim(body.lastName),
               email |-> Trim(body.email),
               password |-> HashPassword(body.password),
               profileImage |-> "", status |-> "active"]
  IN  IF DuplicateKey(users, user.email, NullUser)
        THEN AccountError(400, "User already exists with this email address")
      ELSE AccountResult(201, "User registered successfully",
                         Put(users, id, user), incomes, id,
                         generateToken(id, now))

registerCreate(body) ==
  LET id == userSeq + 1
      user == [firstName |-> Trim(body.firstName),
               lastName |-> Trim(body.lastName),
               email |-> Trim(ToLowerCase(body.email)),
               password |-> HashPassword(body.password),
               profileImage |-> "", status |-> "active"]
  IN  IF DuplicateKey(users, user.email, NullUser)
        THEN AccountError(400, "User already exists with this email address")
      ELSE AccountResult(201, "User registered successfully",
                         Put(users, id, user), incomes, id,
                         generateToken(id, now))

\* updateProfile from user.save() on, for a request that passed the checks:
\* the paths set from the body are written; change tells that the email
\* was set.  A save of a deleted document, or one the index refuses,
\* throws, and the catch answers 500
updateProfileSave(u, body, change) ==
  IF u \notin DOMAIN users THEN AccountError(500, "Error updating profile")
  ELSE
    LET user == users[u]
        n1 == IF ~Missing(body, "firstName")
                THEN [user EXCEPT !.firstName = Trim(body.firstName)] ELSE user
        n2 == IF ~Missing(body, "lastName")
                THEN [n1 EXCEPT !.lastName = Trim(body.lastName)] ELSE n1
        email == Trim(ToLowerCase(body.email))
        n3 == IF change THEN [n2 EXCEPT !.email = email] ELSE n2
    IN  IF change /\ DuplicateKey(users, email, u)
          THEN AccountError(500, "Error updating profile")
        ELSE AccountResult(200, "Profile updated successfully",
                           Put(users, u, n3), incomes, userSeq,
                           generateToken(u, now))

\* Income.deleteMany({ user: id })
IncomeDeleteMany(inc, id) == [i \in {j \in DOMAIN inc : inc[j].user # id} |-> inc[i]]

\* deleteAccount: the account's incomes, then the account
deleteAccount(u) ==
  IF u = NullUser THEN AccountError(500, "Error deleting account")
  ELSE IF u \notin DOMAIN users THEN AccountError(404, "User not found")
  ELSE [AccountResult(200,
                      "Account and all associated data deleted successfully",
                      Drop(users, u), IncomeDeleteMany(incomes, u), userSeq,
                      NoToken)
          EXCEPT !.assets = IF includesCloudinary(users[u].profileImage)
                              THEN deleteFromCloudinary(assets,
                                                        users[u].profileImage)
                            ELSE assets]

(***************************************************************************)
(* Requests.  Every protected route runs protect and then, when the gate   *)
(* called next(), its handler; gate and res record the gate's verdict and  *)
(* the response of the last request.  rel is how the :id of the request    *)
(* relates to req.user when the request arrives.                           *)
(***************************************************************************)
Rel(coll, u, s) ==
  IF FindById(coll, s) = "cast" THEN "malformed"
  ELSE IF FindById(coll, s) = "null" THEN "missing"
  ELSE IF coll[CastObjectId(s)].user = u THEN "owner"
  ELSE "other"

\* a body asks for a negative amount or for a category outside cats
BadInput(body, cats) ==
  \/ Has(body, "amount") /\ body.amount < 0
  \/ Has(body, "category") /\ body.category # "" /\ body.category \notin cats

\* how the email of a registration relates to the accounts: the body fails
\* the field checks, an account holds the email, a registration used it but
\* no account holds it any more, or it is new
RegRel(body) ==
  IF registerChecks(body) # "" THEN "invalid"
  ELSE IF UserFindOne(users, Trim(ToLowerCase(body.email))) # {} THEN "taken"
  ELSE IF Trim(ToLowerCase(body.email)) \in registered THEN "freed"
  ELSE "new"

Response(op, rel, bad, status, msg) ==
  [op |-> op, rel |-> rel, bad |-> bad, status |-> status, msg |-> msg,
   data |-> NoData, success |-> "undefined"]

\* the response of handler result h: its status, message, payload and
\* success key
Answer(op, rel, bad, h) ==
  [Response(op, rel, bad, h.status, h.msg) EXCEPT !.data = h.data,
                                                  !.success = h.success]

\* the response of the gate when it rejects with verdict g: every one of
\* them is { success: false, message }
Rejection(op, rel, bad, g) ==
  [Response(op, rel, bad, g.status, g.msg) EXCEPT !.success = "false"]

\* the token a response hands to its client replaces the one the client held
\* for that account
Keep(tok) ==
  IF tok.sig = "none" THEN tokens
  ELSE {t \in tokens : t.id # tok.id} \cup {tok}

\* a transaction route: protect, then handler result h
TxRoute(op, r, rel, bad, h) ==
  LET g == protect(users, r, now)
  IN  /\ gate' = GateOf(g, users, now)
      /\ IF g.next
           THEN /\ res' = Answer(op, rel, bad, h)
                /\ incomes' = h.incomes
                /\ expenses' = h.expenses
                /\ txSeq' = h.txSeq
           ELSE /\ res' = Rejection(op, rel, bad, g)
                /\ UNCHANGED <<incomes, expenses, txSeq>>
      /\ UNCHANGED <<users, userSeq, now, tokens, registered, upload, assets,
                 inflight>>

\* an account route behind protect
AccountRoute(op, r, h) ==
  LET g == protect(users, r, now)
  IN  /\ gate' = GateOf(g, users, now)
      /\ IF g.next
           THEN /\ res' = [Answer(op, "none", FALSE, h) EXCEPT !.data = NoData]
                /\ users' = h.users
                /\ incomes' = h.incomes
                /\ tokens' = Keep(h.token)
                /\ assets' = h.assets
           ELSE /\ res' = Rejection(op, "none", FALSE, g)
                /\ UNCHANGED <<users, incomes, tokens, assets>>
      /\ UNCHANGED <<expenses, userSeq, txSeq, now, registered, upload, inflight>>

\* an open account route (no gate)
OpenRoute(op, rel, h) ==
  /\ gate' = NoGate
  /\ res' = Answer(op, rel, FALSE, h)
  /\ users' = h.users
  /\ userSeq' = h.userSeq
  /\ tokens' = Keep(h.token)
  /\ UNCHANGED <<incomes, expenses, txSeq, now, upload, assets, inflight>>

ReqUser(r) == protect(users, r, now).user

Register(body) ==
  /\ userSeq < MaxUsers
  /\ OpenRoute("register", RegRel(body), register(body))
  /\ registered' = IF register(body).status = 201
                     THEN registered \cup {Trim(ToLowerCase(body.email))}
                     ELSE registered

\* POST /register served by the second authController
RegisterSampleIncome(body) ==
  LET h == registerSampleIncome(body)
  IN  /\ userSeq < MaxUsers
      /\ txSeq < MaxTx
      /\ gate' = NoGate
      /\ res' = Answer("registerSampleIncome", RegRel(body), FALSE, h)
      /\ users' = h.users
      /\ userSeq' = h.userSeq
      /\ tokens' = Keep(h.token)
      /\ incomes' = h.incomes
      /\ txSeq' = h.txSeq
      /\ registered' = IF h.status = 201
                          THEN registered \cup {Trim(ToLowerCase(body.email))}
                          ELSE registered
      /\ UNCHANGED <<expenses, now, upload, assets, inflight>>

Login(body) ==
  /\ OpenRoute("login", "none", login(body))
  /\ UNCHANGED registered

\* PUT /api/auth/profile with a profileImage file; o is how uploadToCloudinary
\* ends, url the secure_url it returns
UpdateProfileImage(r, body, file, o, url) ==
  /\ url \notin DOMAIN assets
  /\ AccountRoute("updateProfile", r,
                  updateProfileImage(ReqUser(r), body, file, o, url))

UpdateProfile(r, body) ==
  AccountRoute("updateProfile", r, updateProfile(ReqUser(r), body))

DeleteAccount(r) == AccountRoute("deleteAccount", r, deleteAccount(ReqUser(r)))

\* a request in flight: protect has attached req.user and called next(),
\* and the handler has not yet run its write
InFlight(op, u, body) == [op |-> op, user |-> u, body |-> body]

AddOps == {"addIncome", "addExpense", "add_income", "add_expense"}

\* protect of POST /api/incomes, POST /api/expenses or POST /api/ai/manage
\* calls next(): the handler runs later, for the account attached now
PassProtect(op, r, body) ==
  LET g == protect(users, r, now)
  IN  /\ g.next
      /\ InFlight(op, g.user, body) \notin inflight
      /\ gate' = GateOf(g, users, now)
      /\ inflight' = inflight \cup {InFlight(op, g.user, body)}
      /\ UNCHANGED <<users, incomes, expenses, userSeq, txSeq, now, tokens,
                     registered, res, upload, assets>>

\* the handler of a request in flight runs: addIncome, addExpense, or
\* aiFinancialManagement with the action add_income or add_expense
RunHandler(p) ==
  /\ p \in inflight
  /\ p.op \in AddOps
  /\ txSeq < MaxTx
  /\ LET h == IF p.op = "addIncome" THEN addIncome(p.user, p.body)
              ELSE IF p.op = "addExpense" THEN addExpense(p.user, p.body)
              ELSE aiFinancialManagement(p.user, <<>>, p.op, TRUE, p.body,
                                         "unconfigured")
     IN  /\ res' = Answer(p.op, "inflight", FALSE, h)
         /\ incomes' = h.incomes
         /\ expenses' = h.expenses
         /\ txSeq' = h.txSeq
  /\ inflight' = inflight \ {p}
  /\ UNCHANGED <<users, userSeq, now, tokens, registered, gate, upload,
                 assets>>

\* POST /api/auth/register up to its lookup of the email: a request that
\* fails a check is answered, one that passes goes on to User.create later
RegisterCheck(body) ==
  /\ userSeq < MaxUsers
  /\ InFlight("register", NullUser, body) \notin inflight
  /\ IF register(body).status = 201
       THEN /\ inflight' = inflight \cup {InFlight("register", NullUser, body)}
            /\ UNCHANGED <<users, incomes, expenses, userSeq, txSeq, now,
                           tokens, registered, gate, res, upload, assets>>
     ELSE /\ OpenRoute("register", RegRel(body), register(body))
          /\ UNCHANGED registered

\* User.create of a registration in flight, and its answer; rel records a
\* create refused by the index
RegisterCreate(p) ==
  /\ p \in inflight
  /\ p.op = "register"
  /\ userSeq < MaxUsers
  /\ LET h == registerCreate(p.body)
     IN  /\ res' = Answer("register",
                          IF h.status = 201 THEN "new" ELSE "E11000", FALSE, h)
         /\ users' = h.users
         /\ userSeq' = h.userSeq
         /\ tokens' = Keep(h.token)
         /\ registered' = IF h.status = 201
                             THEN registered
                                    \cup {Trim(ToLowerCase(p.body.email))}
                           ELSE registered
  /\ gate' = NoGate
  /\ inflight' = inflight \ {p}
  /\ UNCHANGED <<incomes, expenses, txSeq, now, upload, assets>>

\* PUT /api/auth/profile up to its lookup of the email
UpdateProfileCheck(r, body) ==
  LET g == protect(users, r, now)
      h == updateProfile(g.user, body)
      p == InFlight("updateProfile", g.user,
                    [fields |-> body,
                     change |-> ~Missing(body, "email")
                                /\ body.email # users[g.user].email])
  IN  IF g.next /\ h.status = 200
        THEN /\ p \notin inflight
             /\ gate' = GateOf(g, users, now)
             /\ inflight' = inflight \cup {p}
             /\ UNCHANGED <<users, incomes, expenses, userSeq, txSeq, now,
                            tokens, registered, res, upload, assets>>
      ELSE AccountRoute("updateProfile", r, h)

\* user.save() of a profile update in flight, and its answer
UpdateProfileSave(p) ==
  /\ p \in inflight
  /\ p.op = "updateProfile"
  /\ LET h == updateProfileSave(p.user, p.body.fields, p.body.change)
     IN  /\ res' = Answer("updateProfile",
                          IF h.status = 200 THEN "saved" ELSE "thrown", FALSE, h)
         /\ users' = h.users
         /\ tokens' = Keep(h.token)
  /\ inflight' = inflight \ {p}
  /\ UNCHANGED <<incomes, expenses, userSeq, txSeq, now, registered, gate,
                 upload, assets>>

GetExpenses(r) ==
  TxRoute("getExpenses", r, "none", FALSE, getExpenses(ReqUser(r)))

AddExpense(r, body) ==
  /\ txSeq < MaxTx
  /\ TxRoute("addExpense", r, "none", BadInput(body, ExpenseCategories),
             addExpense(ReqUser(r), body))

DeleteExpense(r, s) ==
  TxRoute("deleteExpense", r, Rel(expenses, ReqUser(r), s), FALSE,
          deleteExpense(ReqUser(r), s))

UpdateExpense(r, s, body) ==
  TxRoute("updateExpense", r, Rel(expenses, ReqUser(r), s),
          BadInput(body, ExpenseCategories),
          updateExpense(ReqUser(r), s, body))

GetExpense(r, s) ==
  TxRoute("getExpense", r, Rel(expenses, ReqUser(r), s), FALSE,
          getExpense(ReqUser(r), s))

GetIncomes(r) ==
  TxRoute("getIncomes", r, "none", FALSE, getIncomes(ReqUser(r)))

AddIncome(r, body) ==
  /\ txSeq < MaxTx
  /\ TxRoute("addIncome", r, "none", BadInput(body, IncomeCategories),
             addIncome(ReqUser(r), body))

DeleteIncome(r, s) ==
  TxRoute("deleteIncome", r, Rel(incomes, ReqUser(r), s), FALSE,
          deleteIncome(ReqUser(r), s))

UpdateIncome(r, s, body) ==
  TxRoute("updateIncome", r, Rel(incomes, ReqUser(r), s),
          BadInput(body, IncomeCategories),
          updateIncome(ReqUser(r), s, body))

GetIncome(r, s) ==
  TxRoute("getIncome", r, Rel(incomes, ReqUser(r), s), FALSE,
          getIncome(ReqUser(r), s))

\* GET /api/expenses/download/report
DownloadExpenses(r) ==
  TxRoute("downloadExpenses", r, "none", FALSE, downloadExpenses(ReqUser(r)))

DownloadIncomes(r) ==
  TxRoute("downloadIncomes", r, "none", FALSE, downloadIncomes(ReqUser(r)))

\* GET /api/dashboard
GetDashboard(r) ==
  TxRoute("getDashboardData", r, "none", FALSE, getDashboardData(ReqUser(r)))

\* POST /api/ai/manage with an action
AiManage(r, action, hasData, data) ==
  /\ txSeq < MaxTx
  /\ TxRoute(action, r, "none",
             BadInput(data, IF action = "add_income" THEN IncomeCategories
                            ELSE ExpenseCategories),
             aiFinancialManagement(ReqUser(r), <<>>, action, hasData, data,
                                   "unconfigured"))

\* POST /api/ai/manage without action and message: the overview, of the
\* second controller and of the first
AiOverview(r) ==
  TxRoute("overview", r, "none", FALSE,
          aiFinancialManagement(ReqUser(r), <<>>, "", FALSE, EmptyDoc,
                                "unconfigured"))

AiOverviewFirst(r) ==
  TxRoute("overviewFirst", r, "none", FALSE,
          aiFinancialManagementFirst(ReqUser(r), "", FALSE, EmptyDoc))

\* POST /api/ai/manage with the action 'savings_advice', of the first
\* controller and of the second
AiSavingsAdviceFirst(r) ==
  TxRoute("savingsAdviceFirst", r, "none", FALSE, savingsAdviceFirst(ReqUser(r)))

AiSavingsAdvice(r) ==
  TxRoute("savingsAdvice", r, "none", FALSE, savingsAdvice(ReqUser(r)))

\* POST /api/ai/insights of the controller that calls the provider; rel
\* records how the call ended
GetFinancialInsightsPeriod(r, o) ==
  TxRoute("getFinancialInsightsPeriod", r, o, FALSE,
          getFinancialInsightsPeriod(ReqUser(r), o))

\* POST /api/ai/tips; rel records the category asked
GetPersonalizedTips(r, category) ==
  TxRoute("getPersonalizedTips", r, category, FALSE,
          getPersonalizedTips(ReqUser(r), category))

\* POST /api/ai/analysis
GetSpendingAnalysis(r) ==
  TxRoute("getSpendingAnalysis", r, "none", FALSE,
          getSpendingAnalysis(ReqUser(r)))

\* POST /api/ai/manage with a message and no action; rel records how the
\* call to the provider ends, if one is made
AiQuery(r, message, o) ==
  /\ message # <<>>
  /\ IncludesAny(ToLowerCase(message), AddPatterns) => txSeq < MaxTx
  /\ TxRoute("aiQuery", r, o, FALSE,
             aiFinancialManagement(ReqUser(r), message, "", FALSE, EmptyDoc, o))

\* GET /api/ai/summary; rel records how the call to the provider ends
GetQuickSummary(r, o) ==
  TxRoute("getQuickSummary", r, o, FALSE, getQuickSummary(ReqUser(r), o))

\* a request passes the optional gate (no response is the gate's: status 0)
OptionalGate(r) ==
  /\ gate' = GateOf(optional(users, r, now), users, now)
  /\ res' = Response("optional", "none", FALSE, optional(users, r, now).status,
                     optional(users, r, now).msg)
  /\ UNCHANGED <<users, incomes, expenses, userSeq, txSeq, now, tokens,
                 registered, upload, assets, inflight>>

\* the account status is changed outside the handlers of the repository
SetStatus(u, st) ==
  /\ u \in DOMAIN users
  /\ users[u].status # st
  /\ users' = [users EXCEPT ![u].status = st]
  /\ UNCHANGED <<incomes, expenses, userSeq, txSeq, now, tokens, registered,
                 gate, res, upload, assets, inflight>>

(***************************************************************************)
(* uploadToCloudinary (config/realCloudinary): upload is the state of one   *)
(* call: its position, the number of the attempt, the outcomes of the      *)
(* attempts made, the delays set between them, lastError, and what the     *)
(* call returned.                                                          *)
(***************************************************************************)
maxRetries == 3
RetryDelay == 2000

UploadErrors == {"timeout", "network", "api"}
Files == {"f1", "f2"}

NoUpload ==
  [pc |-> "none", file |-> "", attempt |-> 0, attempts |-> <<>>,
   delays |-> <<>>, lastError |-> "", result |-> ""]

\* the call with one attempt more than maxRetries
uploadToCloudinary_extraAttempt(up, o) ==
  IF o = "ok"
    THEN [up EXCEPT !.pc = "returned", !.attempts = Append(@, o),
                    !.result = up.file]
  ELSE IF up.attempt < maxRetries + 1
    THEN [up EXCEPT !.pc = "wait", !.attempts = Append(@, o),
                    !.lastError = o, !.delays = Append(@, RetryDelay)]
  ELSE [up EXCEPT !.pc = "thrown", !.attempts = Append(@, o), !.lastError = o]

\* one turn of the loop of uploadToCloudinary, the upload ending in o: "ok",
\* or the error thrown
uploadToCloudinary(up, o) ==
  IF o = "ok"
    THEN [up EXCEPT !.pc = "returned", !.attempts = Append(@, o),
                    !.result = up.file]
  ELSE IF up.attempt < maxRetries
    THEN [up EXCEPT !.pc = "wait", !.attempts = Append(@, o),
                    !.lastError = o, !.delays = Append(@, RetryDelay)]
  ELSE [up EXCEPT !.pc = "thrown", !.attempts = Append(@, o), !.lastError = o]

\* cloudinary.uploader.upload settles
UploadAttempt(o) ==
  /\ upload.pc = "attempt"
  /\ upload' = uploadToCloudinary(upload, o)
  /\ UNCHANGED <<users, incomes, expenses, userSeq, txSeq, now, tokens,
                 registered, gate, res, assets, inflight>>

\* the timer of the delay fires: the next turn of the loop
UploadTimer ==
  /\ upload.pc = "wait"
  /\ upload' = [upload EXCEPT !.pc = "attempt", !.attempt = @ + 1]
  /\ UNCHANGED <<users, incomes, expenses, userSeq, txSeq, now, tokens,
                 registered, gate, res, assets, inflight>>

\* time passes
Tick ==
  /\ now < MaxTime
  /\ now' = now + 1
  /\ UNCHANGED <<users, incomes, expenses, userSeq, txSeq, tokens, registered,
                 gate, res, upload, assets, inflight>>

Init ==
  /\ users = EmptyDoc
  /\ incomes = EmptyDoc
  /\ expenses = EmptyDoc
  /\ userSeq = 0
  /\ txSeq = 0
  /\ now = 1
  /\ tokens = {}
  /\ registered = {}
  /\ gate = NoGate
  /\ upload = NoUpload
  /\ assets = NoAssets
  /\ inflight = {}
  /\ res = Response("none", "none", FALSE, 0, "")

(***************************************************************************)
(* Inputs.                                                                 *)
(***************************************************************************)
EmailA     == <<"a", "@", "b", ".", "c">>
EmailAUp   == <<"A", "@", "b", ".", "c">>
EmailAPad  == <<" ", "a", "@", "b", ".", "c", " ">>
EmailB     == <<"b", "@", "b", ".", "c">>
EmailNoDot == <<"a", "@", "b">>
Name       == <<"A", "n", "n">>
Password   == <<"s", "e", "c", "r", "e", "t">>
WrongPass  == <<"S", "e", "c", "r", "e", "t">>
ShortPass  == <<"a", "b", "c">>
T1         == <<"t", "1">>
T2         == <<"t", "2">>
T1Pad      == <<" ", "t", "1", " ">>
SpaceOnly  == <<" ">>
Lunch      == <<"L", "u", "n", "c", "h">>

RegBody(email) ==
  [firstName |-> Name, lastName |-> Name, email |-> email,
   password |-> Password, confirmPassword |-> Password]

RegisterBodies ==
  {RegBody(e) : e \in {EmailA, EmailAUp, EmailAPad, EmailB, EmailNoDot}}
  \cup {Drop(RegBody(EmailA), "firstName"),
        [RegBody(EmailA) EXCEPT !.lastName = SpaceOnly],
        [RegBody(EmailB) EXCEPT !.password = ShortPass],
        [RegBody(EmailB) EXCEPT !.confirmPassword = WrongPass]}

LoginBodies ==
  {[email |-> e, password |-> p] :
     e \in {EmailA, EmailAPad, EmailB}, p \in {Password, WrongPass}}

ProfileBodies ==
  {EmptyDoc, [email |-> EmailA], [email |-> EmailB], [email |-> EmailAUp],
   [firstName |-> T1]}

\* the credentials a client can present: nothing, or a token it holds or a
\* forged one, in the header or in the cookie
Carry(hdr, ck) == [authorization |-> hdr, cookie |-> ck]

Credentials ==
  {Carry(NoHeader, NoCookie)}
  \cup {Carry(Bearer(t), NoCookie) : t \in tokens \cup {ForgedToken}}
  \cup {Carry(NoHeader, Cookie(t)) : t \in tokens \cup {ForgedToken}}

\* the :id values a client can send
TxIds == {ObjectIdToString(i) : i \in 1..MaxTx} \cup {BadIdString}

OneBody == [title |-> T1, amount |-> 1, category |-> "Food"]

(***************************************************************************)
(* Spec: the account lifecycle and the two stores, with one body per       *)
(* transaction route and only held bearer tokens as credentials.           *)
(***************************************************************************)
HeldBearer == {Carry(Bearer(t), NoCookie) : t \in tokens}

\* the bearer tokens held for account u
Writer(u) == {Carry(Bearer(t), NoCookie) : t \in {x \in tokens : x.id = ObjectIdToString(u)}}

Next ==
  \/ \E b \in {RegBody(EmailA), RegBody(EmailB)} : Register(b)
  \/ \E r \in HeldBearer : DeleteAccount(r)
  \/ \E r \in HeldBearer : GetIncomes(r)
  \/ \E r \in HeldBearer : GetExpenses(r)
  \/ \E r \in HeldBearer : AddIncome(r, OneBody)
  \/ \E r \in HeldBearer : AddExpense(r, OneBody)
  \/ \E r \in HeldBearer, s \in TxIds : DeleteIncome(r, s)
  \/ \E r \in HeldBearer, s \in TxIds : DeleteExpense(r, s)
  \/ \E r \in HeldBearer, s \in TxIds : UpdateIncome(r, s, [category |-> "Other"])
  \/ \E r \in HeldBearer, s \in TxIds : UpdateExpense(r, s, [category |-> "Other"])

Spec == Init /\ [][Next]_vars

(***************************************************************************)
(* SpecGate: the gate in front of a protected route, with accounts that    *)
(* are created, suspended and deleted while the clock advances.            *)
(***************************************************************************)
NextGate ==
  \/ \E b \in {RegBody(EmailA), RegBody(EmailB)} : Register(b)
  \/ \E b \in {[email |-> EmailA, password |-> Password],
               [email |-> EmailB, password |-> WrongPass]} : Login(b)
  \/ \E r \in Credentials : DeleteAccount(r)
  \/ \E u \in DOMAIN users, st \in {"active", "suspended"} : SetStatus(u, st)
  \/ Tick
  \/ \E r \in Credentials : GetExpenses(r)

SpecGate == Init /\ [][NextGate]_vars

(***************************************************************************)
(* SpecReg: registration, login and the changes of an account's email.     *)
(***************************************************************************)
NextReg ==
  \/ \E b \in RegisterBodies : Register(b)
  \/ \E b \in LoginBodies : Login(b)
  \/ \E r \in HeldBearer, b \in ProfileBodies : UpdateProfile(r, b)
  \/ \E r \in HeldBearer : DeleteAccount(r)

SpecReg == Init /\ [][NextReg]_vars

(***************************************************************************)
(* SpecOptional: the optional gate, for the accounts, tokens and clock of  *)
(* SpecGate.                                                               *)
(***************************************************************************)
NextOptional ==
  \/ \E b \in {RegBody(EmailA), RegBody(EmailB)} : Register(b)
  \/ \E r \in Credentials : DeleteAccount(r)
  \/ \E u \in DOMAIN users, st \in {"active", "suspended"} : SetStatus(u, st)
  \/ Tick
  \/ \E r \in Credentials : OptionalGate(r)

SpecOptional == Init /\ [][NextOptional]_vars

(***************************************************************************)
(* SpecCarry: requests that carry an authorization header and a cookie at  *)
(* the same time, in front of a protected route.                           *)
(***************************************************************************)
Headers == {NoHeader, BasicHeader, Bearer(NoToken)}
             \cup {Bearer(t) : t \in tokens \cup {ForgedToken}}

Cookies == {NoCookie} \cup {Cookie(t) : t \in tokens \cup {ForgedToken}}

HeaderAndCookie == {Carry(h, c) : h \in Headers, c \in Cookies}

NextCarry ==
  \/ \E b \in {RegBody(EmailA), RegBody(EmailB)} : Register(b)
  \/ \E u \in DOMAIN users, st \in {"active", "suspended"} : SetStatus(u, st)
  \/ Tick
  \/ \E r \in HeaderAndCookie : GetExpenses(r)

SpecCarry == Init /\ [][NextCarry]_vars

(***************************************************************************)
(* SpecFresh: registrations served by either authController, logins, and   *)
(* incomes added by account 1 only.                                        *)
(***************************************************************************)
FreshLoginBodies ==
  {[email |-> e, password |-> p] : e \in {EmailA, EmailB},
                                   p \in {Password, WrongPass}}

NextFresh ==
  \/ \E b \in {RegBody(EmailA), RegBody(EmailB)} : Register(b)
  \/ \E b \in {RegBody(EmailA), RegBody(EmailB)} : RegisterSampleIncome(b)
  \/ \E b \in FreshLoginBodies : Login(b)
  \/ \E r \in Writer(1) : AddIncome(r, OneBody)
  \/ \E r \in HeldBearer : GetIncomes(r)
  \/ Tick

SpecFresh == Init /\ [][NextFresh]_vars

(***************************************************************************)
(* SpecTx: the transaction routes and the AI write path, called by two     *)
(* registered accounts that hold their bearer tokens.                      *)
(***************************************************************************)
CreateBodies ==
  {[title |-> T1Pad, amount |-> 1, category |-> "Food"],
   [title |-> T1, amount |-> -1, category |-> "Food"],
   [title |-> T1, amount |-> 1, category |-> "Salary"],
   [amount |-> 1, category |-> "Food"],
   [title |-> T1, category |-> "Food"]}

UpdateBodies ==
  {EmptyDoc,
   [amount |-> 0],
   [title |-> T2, description |-> <<>>],
   [amount |-> 2, category |-> "Other", date |-> 2],
   [amount |-> -1],
   [category |-> "Salary"]}

\* data of add_income: with its category, and without one (category 'Other')
AiIncomeData ==
  {[title |-> T1, amount |-> 1, category |-> "Food"],
   [title |-> T1, amount |-> 2, date |-> 2],
   [title |-> T1, amount |-> -1, category |-> "Food"],
   [title |-> T1, amount |-> 1, category |-> "Salary"]}

\* data of add_expense: with its category, and without one (suggested)
AiExpenseData ==
  {[title |-> T1, amount |-> 1, category |-> "Food"],
   [title |-> Lunch, amount |-> 1],
   [title |-> T1, amount |-> -1],
   [title |-> T1, amount |-> 1, category |-> "Salary"]}

InitTx ==
  /\ users = (1 :> [firstName |-> Name, lastName |-> Name, email |-> EmailA,
                    password |-> HashPassword(Password), profileImage |-> "",
                    status |-> "active"])
          @@ (2 :> [firstName |-> Name, lastName |-> Name, email |-> EmailB,
                    password |-> HashPassword(Password), profileImage |-> "",
                    status |-> "active"])
  /\ incomes = EmptyDoc
  /\ expenses = EmptyDoc
  /\ userSeq = 2
  /\ txSeq = 0
  /\ now = 1
  /\ tokens = {generateToken(1, 1), generateToken(2, 1)}
  /\ registered = {EmailA, EmailB}
  /\ gate = NoGate
  /\ upload = NoUpload
  /\ assets = NoAssets
  /\ inflight = {}
  /\ res = [Response("register", "new", FALSE, 201,
                     "User registered successfully") EXCEPT !.success = "true"]

NextTx ==
  \/ \E r \in Writer(1), b \in CreateBodies : AddIncome(r, b)
  \/ \E r \in Writer(2), b \in CreateBodies : AddExpense(r, b)
  \/ \E r \in HeldBearer, s \in TxIds : GetIncome(r, s)
  \/ \E r \in HeldBearer, s \in TxIds : GetExpense(r, s)
  \/ \E r \in HeldBearer, s \in TxIds : DeleteIncome(r, s)
  \/ \E r \in HeldBearer, s \in TxIds : DeleteExpense(r, s)
  \/ \E r \in HeldBearer, s \in TxIds, b \in UpdateBodies : UpdateIncome(r, s, b)
  \/ \E r \in HeldBearer, s \in TxIds, b \in UpdateBodies : UpdateExpense(r, s, b)
  \/ \E r \in Writer(1), d \in AiIncomeData : AiManage(r, "add_income", TRUE, d)
  \/ \E r \in Writer(2), d \in AiExpenseData : AiManage(r, "add_expense", TRUE, d)
  \/ \E r \in Writer(2) : AiManage(r, "add_expense", FALSE, EmptyDoc)

SpecTx == InitTx /\ [][NextTx]_vars

(***************************************************************************)
(* SpecDash: the lists, the dashboard and the analyses, read by two        *)
(* registered accounts inside a month.  Dates of the bodies are relative   *)
(* to the month of the clock: the instant before it, its first instant,    *)
(* its last instant, and (no date) the instant of the request.             *)
(***************************************************************************)
DashNow == MonthLen + 1

DashIncomeBodies ==
  {[title |-> T1, amount |-> 1, category |-> "Food",
    date |-> StartOfMonth(DashNow)],
   [title |-> T1, amount |-> 2, category |-> "Other",
    date |-> EndOfMonth(DashNow)],
   [title |-> T1, amount |-> 0, category |-> "Food"]}

DashExpenseBodies ==
  {[amount |-> 1, category |-> "Food", date |-> StartOfMonth(DashNow) - 1],
   [amount |-> 1, category |-> "Food", date |-> StartOfMonth(DashNow)],
   [amount |-> 2, category |-> "Bills", date |-> EndOfMonth(DashNow)],
   [amount |-> 0, category |-> "Food"],
   [amount |-> 1, category |-> "Bills"]}

\* req.body.category of POST /api/ai/tips; "" when the body has none
TipCategories == {"income", "expense", "saving", ""}

InitDash ==
  /\ users = (1 :> [firstName |-> Name, lastName |-> Name, email |-> EmailA,
                    password |-> HashPassword(Password), profileImage |-> "",
                    status |-> "active"])
          @@ (2 :> [firstName |-> Name, lastName |-> Name, email |-> EmailB,
                    password |-> HashPassword(Password), profileImage |-> "",
                    status |-> "active"])
  /\ incomes = EmptyDoc
  /\ expenses = EmptyDoc
  /\ userSeq = 2
  /\ txSeq = 0
  /\ now = DashNow
  /\ tokens = {generateToken(1, DashNow), generateToken(2, DashNow)}
  /\ registered = {EmailA, EmailB}
  /\ gate = NoGate
  /\ upload = NoUpload
  /\ assets = NoAssets
  /\ inflight = {}
  /\ res = [Response("register", "new", FALSE, 201,
                     "User registered successfully") EXCEPT !.success = "true"]

\* account 1 records incomes and expenses, account 2 one kind of expense;
\* both read
NextDash ==
  \/ \E r \in Writer(1), b \in DashIncomeBodies : AddIncome(r, b)
  \/ \E r \in Writer(1), b \in DashExpenseBodies : AddExpense(r, b)
  \/ \E r \in Writer(2) : AddExpense(r, OneBody)
  \/ \E r \in HeldBearer, s \in TxIds : DeleteExpense(r, s)
  \/ \E r \in HeldBearer : GetIncomes(r)
  \/ \E r \in HeldBearer : GetExpenses(r)
  \/ \E r \in HeldBearer : GetDashboard(r)
  \/ \E r \in HeldBearer : AiOverview(r)
  \/ \E r \in HeldBearer : AiOverviewFirst(r)
  \/ \E r \in HeldBearer, o \in {"unconfigured", "content"} :
       GetFinancialInsightsPeriod(r, o)
  \/ \E r \in HeldBearer, c \in TipCategories : GetPersonalizedTips(r, c)

SpecDash == InitDash /\ [][NextDash]_vars

(***************************************************************************)
(* SpecReport: the two accounts of SpecDash add and delete incomes and     *)
(* expenses of different dates and download their reports.                 *)
(***************************************************************************)
ReportIncomeBodies ==
  {[title |-> T1, amount |-> 1, category |-> "Food", description |-> Lunch,
    date |-> StartOfMonth(DashNow) - 1],
   [title |-> T2, amount |-> 2, category |-> "Other", description |-> SpaceOnly]}

ReportExpenseBodies ==
  {[title |-> T1, amount |-> 1, category |-> "Food",
    date |-> StartOfMonth(DashNow) - 1],
   [title |-> T2, amount |-> 2, category |-> "Bills", description |-> Lunch]}

NextReport ==
  \/ \E r \in HeldBearer, b \in ReportIncomeBodies : AddIncome(r, b)
  \/ \E r \in HeldBearer, b \in ReportExpenseBodies : AddExpense(r, b)
  \/ \E r \in HeldBearer, s \in TxIds : DeleteIncome(r, s)
  \/ \E r \in HeldBearer, s \in TxIds : DeleteExpense(r, s)
  \/ \E r \in HeldBearer : DownloadIncomes(r)
  \/ \E r \in HeldBearer : DownloadExpenses(r)

SpecReport == InitDash /\ [][NextReport]_vars

(***************************************************************************)
(* SpecTips: the tips and the spending analysis as functions of what an    *)
(* account holds: account 1 has recorded one income and one expense, of    *)
(* any amounts of Amounts, the expense inside or before the month.         *)
(***************************************************************************)
MaxAmount == 20

Amounts == 0..MaxAmount \cup {HighExpense + 1, PassiveIncomeSavings + 1}

InitTips ==
  /\ users = (1 :> [firstName |-> Name, lastName |-> Name, email |-> EmailA,
                    password |-> HashPassword(Password), profileImage |-> "",
                    status |-> "active"])
          @@ (2 :> [firstName |-> Name, lastName |-> Name, email |-> EmailB,
                    password |-> HashPassword(Password), profileImage |-> "",
                    status |-> "active"])
  /\ \E a \in Amounts :
       incomes = (1 :> incomeSchema(Obj(1, [title |-> T1, amount |-> a,
                                            category |-> "Food"], DashNow),
                                   DashNow))
  /\ \E b \in Amounts, d \in {DashNow, StartOfMonth(DashNow) - 1} :
       expenses = (2 :> expenseSchema(Obj(1, [amount |-> b, category |-> "Food",
                                              date |-> d], DashNow),
                                     DashNow))
  /\ userSeq = 2
  /\ txSeq = 2
  /\ now = DashNow
  /\ tokens = {generateToken(1, DashNow), generateToken(2, DashNow)}
  /\ registered = {EmailA, EmailB}
  /\ gate = NoGate
  /\ upload = NoUpload
  /\ assets = NoAssets
  /\ inflight = {}
  /\ res = Response("addExpense", "none", FALSE, 201, "created")

NextTips ==
  \/ \E r \in HeldBearer, c \in TipCategories : GetPersonalizedTips(r, c)
  \/ \E r \in HeldBearer : GetSpendingAnalysis(r)

SpecTips == InitTips /\ [][NextTips]_vars

(***************************************************************************)
(* SpecAi: the requests that call the provider, for every outcome of the   *)
(* call, by two accounts of which the first records transactions.          *)
(***************************************************************************)
AiMessages ==
  {<<"p", "l", "a", "n">>,
   <<"I", "n", "v", "e", "s", "t">>,
   <<"m", "y", " ", "b", "u", "d", "g", "e", "t">>}

AiIncomeBodies ==
  {[title |-> T1, amount |-> 2, category |-> "Food"],
   [title |-> T1, amount |-> 1, category |-> "Food",
    date |-> StartOfMonth(DashNow) - 1]}

AiExpenseBodies ==
  {[amount |-> 1, category |-> "Food"],
   [amount |-> 0, category |-> "Bills"],
   [amount |-> 2, category |-> "Food", date |-> StartOfMonth(DashNow) - 1]}

NextAi ==
  \/ \E r \in Writer(1), b \in AiIncomeBodies : AddIncome(r, b)
  \/ \E r \in Writer(1), b \in AiExpenseBodies : AddExpense(r, b)
  \/ \E r \in HeldBearer, o \in ExternalOutcomes : GetFinancialInsightsPeriod(r, o)
  \/ \E r \in HeldBearer, o \in ExternalOutcomes : GetQuickSummary(r, o)
  \/ \E r \in HeldBearer, m \in AiMessages, o \in ExternalOutcomes : AiQuery(r, m, o)

SpecAi == InitDash /\ [][NextAi]_vars

(***************************************************************************)
(* SpecText: the messages of POST /api/ai/manage that are answered from    *)
(* the text, sent by the two accounts.                                     *)
(***************************************************************************)
AddIncomeSalary ==
  <<"A", "d", "d", " ", "i", "n", "c", "o", "m", "e", " ", "$", "1", "5",
    "0", "0", " ", "s", "a", "l", "a", "r", "y">>

ReceivedFreelance ==
  <<"R", "e", "c", "e", "i", "v", "e", "d", " ", "$", "3", "0", "0", " ",
    "f", "r", "e", "e", "l", "a", "n", "c", "e", " ", "p", "a", "y", "m",
    "e", "n", "t">>

AddIncomePlain ==
  <<"a", "d", "d", " ", "i", "n", "c", "o", "m", "e", " ", "5">>

SpentOnLunch ==
  <<"S", "p", "e", "n", "t", " ", "$", "2", "5", " ", "o", "n", " ", "l",
    "u", "n", "c", "h">>

BoughtGroceries ==
  <<"B", "o", "u", "g", "h", "t", " ", "g", "r", "o", "c", "e", "r", "i",
    "e", "s">>

SpentOnTransportation ==
  <<"H", "o", "w", " ", "m", "u", "c", "h", " ", "h", "a", "v", "e", " ",
    "I", " ", "s", "p", "e", "n", "t", " ", "o", "n", " ", "t", "r", "a",
    "n", "s", "p", "o", "r", "t", "a", "t", "i", "o", "n", "?">>

SpentInYear ==
  <<"H", "o", "w", " ", "m", "u", "c", "h", " ", "h", "a", "v", "e", " ",
    "I", " ", "s", "p", "e", "n", "t", " ", "i", "n", " ", "2", "0", "2",
    "4", "?">>

SavedThisMonth ==
  <<"H", "o", "w", " ", "m", "u", "c", "h", " ", "h", "a", "v", "e", " ",
    "I", " ", "s", "a", "v", "e", "d", " ", "t", "h", "i", "s", " ", "m",
    "o", "n", "t", "h", "?">>

ShowTopThree ==
  <<"S", "h", "o", "w", " ", "m", "e", " ", "m", "y", " ", "t", "o", "p",
    " ", "3", " ", "c", "a", "t", "e", "g", "o", "r", "i", "e", "s">>

SaveMore ==
  <<"H", "o", "w", " ", "c", "a", "n", " ", "I", " ", "s", "a", "v", "e",
    " ", "m", "o", "r", "e", "?">>

AddIncomeMessages == {AddIncomeSalary, ReceivedFreelance, AddIncomePlain}

AddExpenseMessages == {SpentOnLunch, BoughtGroceries}

QueryMessages ==
  {SpentOnTransportation, SpentInYear, SavedThisMonth, ShowTopThree}

TextMessages ==
  AddIncomeMessages \cup AddExpenseMessages \cup QueryMessages \cup {SaveMore}

NextText ==
  \E r \in HeldBearer, m \in TextMessages : AiQuery(r, m, "unconfigured")

SpecText == InitDash /\ [][NextText]_vars

(***************************************************************************)
(* SpecAdvice: the answers that state a savings rate, for two accounts    *)
(* with and without income in the month.                                  *)
(***************************************************************************)
AdviceIncomeBodies ==
  {[title |-> T1, amount |-> 2, category |-> "Food"],
   [title |-> T1, amount |-> 1, category |-> "Food",
    date |-> StartOfMonth(DashNow) - 1]}

AdviceExpenseBodies ==
  {[amount |-> 1, category |-> "Food"],
   [amount |-> 0, category |-> "Bills"]}

NextAdvice ==
  \/ \E r \in HeldBearer, b \in AdviceIncomeBodies : AddIncome(r, b)
  \/ \E r \in HeldBearer, b \in AdviceExpenseBodies : AddExpense(r, b)
  \/ \E r \in HeldBearer : AiSavingsAdviceFirst(r)
  \/ \E r \in HeldBearer : AiSavingsAdvice(r)
  \/ \E r \in HeldBearer : GetFinancialInsightsPeriod(r, "unconfigured")
  \/ \E r \in HeldBearer : GetSpendingAnalysis(r)
  \/ \E r \in HeldBearer : AiOverviewFirst(r)

SpecAdvice == InitDash /\ [][NextAdvice]_vars

(***************************************************************************)
(* SpecImage: the two accounts change their profile and its image; every  *)
(* upload ends in a returned url or in an error.                           *)
(***************************************************************************)
ImageFiles ==
  {[image |-> TRUE, large |-> FALSE],
   [image |-> TRUE, large |-> TRUE],
   [image |-> FALSE, large |-> FALSE]}

ImageBodies ==
  {EmptyDoc, [firstName |-> T1Pad], [email |-> EmailA], [email |-> EmailAUp]}

NextImage ==
  \/ \E r \in HeldBearer, b \in ImageBodies : UpdateProfile(r, b)
  \/ \E r \in HeldBearer, b \in ImageBodies, f \in ImageFiles,
        o \in {"returned", "thrown"}, url \in SecureUrls :
        UpdateProfileImage(r, b, f, o, url)
  \/ \E r \in HeldBearer : DeleteAccount(r)

SpecImage == InitDash /\ [][NextImage]_vars

(***************************************************************************)
(* SpecOrphan: the requests that add a transaction run in two steps, the   *)
(* gate and the handler, interleaved with each other and with the          *)
(* deletion of the accounts.                                               *)
(***************************************************************************)
InFlightRequests ==
  {InFlight(op, u, OneBody) : op \in AddOps, u \in 1..MaxUsers}

NextOrphan ==
  \/ \E op \in AddOps, r \in HeldBearer : PassProtect(op, r, OneBody)
  \/ \E p \in InFlightRequests : RunHandler(p)
  \/ \E r \in HeldBearer : DeleteAccount(r)

SpecOrphan == InitDash /\ [][NextOrphan]_vars

(***************************************************************************)
(* SpecEmail: registrations and profile updates run in two steps, the      *)
(* lookup of the email and the write, interleaved with each other and      *)
(* with the deletion of the accounts.                                      *)
(***************************************************************************)
EmailRegisterBodies == {RegBody(EmailA), RegBody(EmailAUp)}

EmailProfileBodies == {[email |-> EmailAPad], [email |-> EmailB]}

EmailRequests ==
  {InFlight("register", NullUser, b) : b \in EmailRegisterBodies}
  \cup {InFlight("updateProfile", u, [fields |-> b, change |-> c]) :
          u \in 1..MaxUsers, b \in EmailProfileBodies, c \in BOOLEAN}

NextEmail ==
  \/ \E b \in EmailRegisterBodies : RegisterCheck(b)
  \/ \E p \in EmailRequests : RegisterCreate(p)
  \/ \E r \in HeldBearer, b \in EmailProfileBodies : UpdateProfileCheck(r, b)
  \/ \E p \in EmailRequests : UpdateProfileSave(p)
  \/ \E r \in HeldBearer : DeleteAccount(r)

SpecEmail == Init /\ [][NextEmail]_vars

(***************************************************************************)
(* SpecUpload: one call of uploadToCloudinary, every attempt ending in     *)
(* success or in one of the errors.  The promise of an attempt settles     *)
(* (the upload has its own timeout) and the timer fires: weak fairness.    *)
(***************************************************************************)
InitUpload ==
  /\ users = EmptyDoc
  /\ incomes = EmptyDoc
  /\ expenses = EmptyDoc
  /\ userSeq = 0
  /\ txSeq = 0
  /\ now = 1
  /\ tokens = {}
  /\ registered = {}
  /\ gate = NoGate
  /\ res = Response("none", "none", FALSE, 0, "")
  /\ assets = NoAssets
  /\ inflight = {}
  /\ \E f \in Files :
       upload = [NoUpload EXCEPT !.pc = "attempt", !.file = f, !.attempt = 1]

NextUpload ==
  \/ \E o \in {"ok"} \cup UploadErrors : UploadAttempt(o)
  \/ UploadTimer

SpecUpload == InitUpload /\ [][NextUpload]_vars /\ WF_vars(NextUpload)

(***************************************************************************)
(* Properties.  gate and res describe the last request: what the gate did  *)
(* with it and what was answered.                                          *)
(***************************************************************************)
IdOps ==
  {"getIncome", "getExpense", "updateIncome", "updateExpense", "deleteIncome",
   "deleteExpense"}

\* the last request was made by an authenticated account
Authenticated == gate.carrier # "open" /\ gate.next /\ gate.user # NullUser

\* C1 (as stated): get-by-id, update and delete by an authenticated account
\* that does not own a record with the id are answered Forbidden (401 'Not
\* authorized'), whether a record with that id exists or not.
C1_ForbiddenWhetherOrNotExists ==
  (res.op \in IdOps /\ Authenticated /\ res.rel \in {"other", "missing"})
    => (res.status = 401 /\ res.msg = "Not authorized")

\* C1 (amended): when a record with the id exists and belongs to another
\* account the answer is 401 'Not authorized'; when no record with the id
\* exists the answer is 404 '... not found'.
C1_ForbiddenOrNotFound ==
  (res.op \in IdOps /\ Authenticated)
    => /\ res.rel = "other" => (res.status = 401 /\ res.msg = "Not authorized")
       /\ res.rel = "missing"
            => (res.status = 404
                /\ res.msg \in {"Income not found", "Expense not found"})

C1_Witness ==
  /\ res.op = "getExpense" /\ Authenticated
  /\ res.rel = "other" /\ res.status = 401

\* C2: after a successful deleteAccount of account A no Income and no
\* Expense owned by A is stored.
C2_CascadeDelete ==
  (res.op = "deleteAccount" /\ res.status = 200)
    => /\ \A id \in DOMAIN incomes : incomes[id].user # gate.user
       /\ \A id \in DOMAIN expenses : expenses[id].user # gate.user

\* C3: a request whose token verifies but whose account id matches no stored
\* account is answered 401 by the gate and next is not called, for the
\* Bearer header and for the token cookie.
C3_StaleTokenRejected ==
  (gate.carrier \in {"bearer", "cookie"} /\ gate.verify = "ok"
   /\ gate.account = NullUser)
    => (~gate.next /\ res.status = 401)

\* C4: a request whose token verifies and resolves to a suspended account is
\* answered 401 by the gate and next is not called, for the Bearer header
\* and for the token cookie.
C4_SuspendedRejected ==
  (gate.carrier \in {"bearer", "cookie"} /\ gate.verify = "ok"
   /\ gate.status = "suspended")
    => (~gate.next /\ res.status = 401)

DuplicateAnswer ==
  res.status = 400 /\ res.msg = "User already exists with this email address"

\* C5 (as stated): once a registration with email e has succeeded, every
\* later registration (passing the field checks) with an email equal to e up
\* to letter case and surrounding whitespace is answered with the duplicate
\* email 400.
C5_ConflictEverAfter ==
  (res.op = "register" /\ res.rel \in {"taken", "freed"}) => DuplicateAnswer

\* C5 (amended): while an account holds email e, every registration that
\* passes the field checks with an email equal to e up to letter case and
\* surrounding whitespace is answered with the duplicate email 400 and
\* creates no account: no two accounts hold the same email.
C5_ConflictWhileHeld ==
  /\ (res.op = "register" /\ res.rel = "taken") => DuplicateAnswer
  /\ \A u, v \in DOMAIN users : users[u].email = users[v].email => u = v

C5_Witness ==
  /\ res.op = "register" /\ res.rel = "taken" /\ DuplicateAnswer
  /\ userSeq < MaxUsers

UpdateFields == {"title", "amount", "category", "description", "date"}

\* the fields fs of record id are in new what they were in old
Kept(old, new, id, fs) ==
  /\ id \in DOMAIN new
  /\ \A f \in fs :
       /\ Has(new[id], f) <=> Has(old[id], f)
       /\ Has(old[id], f) => new[id][f] = old[id][f]

\* the owner's requests for record s that the last step may have been
OwnerOf(coll, r, s) ==
  /\ gate'.token = r.authorization.token
  /\ Rel(coll, ReqUser(r), s) = "owner"

\* the bodies the last step may have carried
BodiesOf(cats) == {b \in UpdateBodies : BadInput(b, cats) = res'.bad}

\* C7: an update of an Income or Expense by its owner leaves each of title,
\* amount, category, description and date that is absent from the body as it
\* was; with an empty body every field of the record is as it was.
C7_AbsentFieldsKept ==
  [][ /\ (res'.op = "updateIncome" /\ res'.rel = "owner")
        => \A r \in HeldBearer, s \in TxIds :
             OwnerOf(incomes, r, s)
               => \A b \in BodiesOf(IncomeCategories) :
                    UpdateIncome(r, s, b)
                      => /\ Kept(incomes, incomes', CastObjectId(s),
                                 UpdateFields \ DOMAIN b)
                         /\ b = EmptyDoc
                              => incomes'[CastObjectId(s)]
                                   = incomes[CastObjectId(s)]
      /\ (res'.op = "updateExpense" /\ res'.rel = "owner")
        => \A r \in HeldBearer, s \in TxIds :
             OwnerOf(expenses, r, s)
               => \A b \in BodiesOf(ExpenseCategories) :
                    UpdateExpense(r, s, b)
                      => /\ Kept(expenses, expenses', CastObjectId(s),
                                 UpdateFields \ DOMAIN b)
                         /\ b = EmptyDoc
                              => expenses'[CastObjectId(s)]
                                   = expenses[CastObjectId(s)]
    ]_vars

\* an owner's update changing one field went through while the record keeps
\* its description
C7_Witness ==
  /\ res.op = "updateIncome" /\ res.rel = "owner" /\ res.status = 200
  /\ \E id \in DOMAIN incomes :
       /\ incomes[id].amount = 2 /\ incomes[id].title = T2
       /\ Has(incomes[id], "description")

\* the fields of body b that are paths of the schema hold the value of b
Stored(new, id, b, paths) ==
  /\ id \in DOMAIN new
  /\ \A f \in (DOMAIN b) \cap paths : Has(new[id], f) /\ new[id][f] = b[f]

\* C8: after a successful update of an Income or Expense by its owner, each
\* field the body provides with a schema-valid value (amount 0 included)
\* holds exactly the provided value.
C8_ProvidedFieldsStored ==
  [][ /\ (res'.op = "updateIncome" /\ res'.rel = "owner" /\ res'.status = 200)
        => \A r \in HeldBearer, s \in TxIds :
             OwnerOf(incomes, r, s)
               => \A b \in UpdateBodies :
                    UpdateIncome(r, s, b)
                      => Stored(incomes', CastObjectId(s), b, UpdateFields)
      /\ (res'.op = "updateExpense" /\ res'.rel = "owner" /\ res'.status = 200)
        => \A r \in HeldBearer, s \in TxIds :
             OwnerOf(expenses, r, s)
               => \A b \in UpdateBodies :
                    UpdateExpense(r, s, b)
                      => Stored(expenses', CastObjectId(s), b,
                                {"amount", "category", "date"})
    ]_vars

\* C9: an update or delete requested by an account other than the record's
\* owner leaves both stores as they were, and no update changes the owner
\* of a record.
C9_OwnershipBeforeMutation ==
  [][ /\ (res'.op \in {"updateIncome", "updateExpense", "deleteIncome",
                       "deleteExpense"} /\ res'.rel = "other")
        => (incomes' = incomes /\ expenses' = expenses)
      /\ \A id \in (DOMAIN incomes) \cap (DOMAIN incomes') :
           incomes'[id].user = incomes[id].user
      /\ \A id \in (DOMAIN expenses) \cap (DOMAIN expenses') :
           expenses'[id].user = expenses[id].user
    ]_vars

C9_Witness ==
  /\ res.op = "deleteExpense" /\ res.rel = "other" /\ res.status = 401
  /\ Authenticated
  /\ \E id \in DOMAIN expenses : expenses[id].user # gate.user

StoreValid ==
  /\ \A id \in DOMAIN incomes :
       incomes[id].amount >= 0 /\ incomes[id].category \in IncomeCategories
  /\ \A id \in DOMAIN expenses :
       expenses[id].amount >= 0 /\ expenses[id].category \in ExpenseCategories

WriteOps ==
  {"addIncome", "addExpense", "updateIncome", "updateExpense", "add_income",
   "add_expense"}

\* C10: every stored Income and Expense has amount >= 0 and a category of
\* its enumeration, and a create or update asking for a negative amount or
\* for a category outside the enumeration is answered 400, on the routes
\* addIncome, addExpense, updateIncome, updateExpense and on the AI
\* add_income / add_expense.
C10_ValidationAnswered400 ==
  /\ StoreValid
  /\ (res.op \in WriteOps /\ Authenticated /\ res.bad
      /\ (res.op \in {"updateIncome", "updateExpense"} => res.rel = "owner"))
       => res.status = 400

(***************************************************************************)
(* Lists and aggregates.                                                   *)
(***************************************************************************)
\* the ids of the documents of coll that account u owns
OwnIds(coll, u) == {i \in DOMAIN coll : coll[i].user = u}

\* C11: a successful list of incomes or of expenses holds exactly the
\* documents of the authenticated account, each once and as stored, and no
\* document comes before one with a later date.
C11_ListOwnByDateDesc ==
  (res.op \in {"getIncomes", "getExpenses"} /\ res.status = 200) =>
    LET coll == IF res.op = "getIncomes" THEN incomes ELSE expenses
        q == res.data
    IN  /\ {q[k]._id : k \in 1..Len(q)} = OwnIds(coll, gate.user)
        /\ Len(q) = Cardinality(OwnIds(coll, gate.user))
        /\ \A k \in 1..Len(q) : q[k] = Put(coll[q[k]._id], "_id", q[k]._id)
        /\ \A j, k \in 1..Len(q) : j < k => q[j].date >= q[k].date

\* a list of two expenses answered in the reverse of the order of creation
C11_Witness ==
  /\ res.op = "getExpenses"
  /\ res.status = 200
  /\ Len(res.data) = 2
  /\ res.data[1]._id > res.data[2]._id
  /\ res.data[1].date > res.data[2].date

\* the sum of the amounts of the documents of coll with ids in S
RECURSIVE SumOf(_, _)
SumOf(coll, S) ==
  IF S = {} THEN 0
  ELSE LET i == CHOOSE x \in S : TRUE
       IN  coll[i].amount + SumOf(coll, S \ {i})

\* the documents of account u in coll with category c
OwnIn(coll, u, c) == {i \in OwnIds(coll, u) : coll[i].category = c}

\* C12: a dashboard reports the balance of the authenticated account over
\* its own stored documents, and for each category of its incomes one entry
\* of incomeByCategory with the total of the category and its percentage of
\* the total income; documents of other accounts change nothing of it.
C12_DashboardBalanceAndShares ==
  (res.op = "getDashboardData" /\ res.status = 200) =>
    LET u == gate.user
        ti == SumOf(incomes, OwnIds(incomes, u))
        te == SumOf(expenses, OwnIds(expenses, u))
        by == res.data.charts.incomeByCategory
    IN  /\ res.data.summary.balance = ti - te
        /\ {e._id : e \in by} = {incomes[i].category : i \in OwnIds(incomes, u)}
        /\ \A e \in by :
             /\ e.total = SumOf(incomes, OwnIn(incomes, u, e._id))
             /\ Has(e, "percentage")
             /\ e.percentage = IF ti = 0 THEN Zero ELSE Times100(Div(e.total, ti))
        /\ \A e, f \in by : e._id = f._id => e = f

\* the part of C12 that the dashboard does satisfy: balance and totals per
\* category over the documents of the account alone
C12_BalanceAndTotalsOwn ==
  (res.op = "getDashboardData" /\ res.status = 200) =>
    LET u == gate.user
        by == res.data.charts.incomeByCategory
    IN  /\ res.data.summary.balance =
             SumOf(incomes, OwnIds(incomes, u)) - SumOf(expenses, OwnIds(expenses, u))
        /\ {e._id : e \in by} = {incomes[i].category : i \in OwnIds(incomes, u)}
        /\ \A e \in by : e.total = SumOf(incomes, OwnIn(incomes, u, e._id))

\* a number that is neither NaN nor infinite
Finite(x) == x.d # 0

\* p is total / divisor * 100 (given to one decimal when fixed), and 0 when
\* the divisor is 0
ShareOf(p, total, divisor, fixed) ==
  /\ Finite(p)
  /\ divisor = 0 => p.n = 0
  /\ divisor # 0 =>
       p = IF fixed THEN toFixed1(Times100(Div(total, divisor)))
           ELSE Times100(Div(total, divisor))

\* C13: in every category breakdown computed for a response (analyzeByCategory
\* for the tips, expenseByCategory of the first overview, categories of
\* prepareAnalysisData) each percentage is total / divisor * 100, is 0 when
\* the divisor is 0, and is never NaN or infinite.
C13_PercentagesDefined ==
  /\ (res.op = "getPersonalizedTips" /\ res.status = 200) =>
       \A coll \in {incomes, expenses} :
         LET q == Find(coll, gate.user)
             by == analyzeByCategory(q)
         IN  \A c \in DOMAIN by :
               ShareOf(by[c].percentage, by[c].total, SumAmount(q), FALSE)
  /\ (res.op = "overviewFirst" /\ res.status = 200) =>
       LET by == res.data.summary.expenseByCategory
       IN  \A k \in 1..Len(by) :
             ShareOf(by[k].percentage, by[k].total,
                     res.data.summary.currentMonthExpense, TRUE)
  /\ (res.op = "getFinancialInsightsPeriod" /\ res.status = 200) =>
       LET p == getPeriodData(gate.user, now)
           cats == prepareAnalysisData(p.currentData, p.previousData).categories
       IN  \A k \in 1..Len(cats) :
             ShareOf(cats[k].percentage, cats[k].amount,
                     SumAmount(p.currentData.expenses), TRUE)

\* x + y of two finite numbers
Plus(x, y) == [n |-> x.n * y.d + y.n * x.d, d |-> x.d * y.d]

\* the sum of the percentages of the entries of a breakdown given as a
\* sequence
RECURSIVE SumPercentage(_)
SumPercentage(q) ==
  IF q = <<>> THEN Zero ELSE Plus(Head(q).percentage, SumPercentage(Tail(q)))

\* the entries of an object keyed by category, as a sequence
RECURSIVE Entries(_)
Entries(by) ==
  IF DOMAIN by = {} THEN <<>>
  ELSE LET c == CHOOSE x \in DOMAIN by : TRUE
       IN  <<by[c]>> \o Entries([k \in DOMAIN by \ {c} |-> by[k]])

\* x is 100 within tol tenths
Near100(x, tol) ==
  /\ Finite(x)
  /\ 10 * x.n - 1000 * x.d <= tol * x.d
  /\ 1000 * x.d - 10 * x.n <= tol * x.d

\* C14: the breakdown of no transactions is empty, and the percentages of
\* the breakdown of some transactions sum to 100 within the rounding of its
\* entries, for analyzeByCategory and for expenseByCategory of the overview,
\* whatever the dates.
C14_SharesSumTo100 ==
  /\ (res.op = "getPersonalizedTips" /\ res.status = 200) =>
       \A coll \in {incomes, expenses} :
         LET q == Find(coll, gate.user)
             by == analyzeByCategory(q)
         IN  /\ q = <<>> => DOMAIN by = {}
             /\ q # <<>> => Near100(SumPercentage(Entries(by)), 0)
  /\ (res.op = "overview" /\ res.status = 200) =>
       LET by == res.data.summary.expenseByCategory
       IN  /\ res.data.summary.expenses = <<>> => by = <<>>
           /\ res.data.summary.expenses # <<>> =>
                Near100(SumPercentage(by), Len(by))

\* the documents of account u in coll dated from the first to the last
\* instant of the month of t, both included
InWindow(coll, u, t) ==
  {i \in OwnIds(coll, u) :
     StartOfMonth(t) <= coll[i].date /\ coll[i].date <= EndOfMonth(t)}

\* C15: every total of the current month (monthlyIncome and monthlyExpense of
\* the dashboard, currentMonthIncome and currentMonthExpense of the overview
\* and of calculateFinancialMetrics) is the sum of exactly the documents of
\* the account dated inside the month, its first and last instants included.
C15_MonthWindowInclusive ==
  LET u == gate.user
      mi == SumOf(incomes, InWindow(incomes, u, now))
      me == SumOf(expenses, InWindow(expenses, u, now))
  IN  /\ (res.op = "getDashboardData" /\ res.status = 200) =>
           /\ res.data.summary.monthlyIncome = mi
           /\ res.data.summary.monthlyExpense = me
      /\ (res.op = "overview" /\ res.status = 200) =>
           /\ res.data.summary.currentMonthIncome = mi
           /\ res.data.summary.currentMonthExpense = me
      /\ (res.op = "getPersonalizedTips" /\ res.status = 200) =>
           LET m == calculateFinancialMetrics(Find(incomes, u), Find(expenses, u), now)
           IN  /\ m.currentMonthIncome = mi
               /\ m.currentMonthExpense = me

\* the totals of C15 that the code keeps inclusive: the dashboard and
\* calculateFinancialMetrics
C15_InclusiveElsewhere ==
  LET u == gate.user
      mi == SumOf(incomes, InWindow(incomes, u, now))
      me == SumOf(expenses, InWindow(expenses, u, now))
  IN  /\ (res.op = "getDashboardData" /\ res.status = 200) =>
           /\ res.data.summary.monthlyIncome = mi
           /\ res.data.summary.monthlyExpense = me
      /\ (res.op = "getPersonalizedTips" /\ res.status = 200) =>
           LET m == calculateFinancialMetrics(Find(incomes, u), Find(expenses, u), now)
           IN  /\ m.currentMonthIncome = mi
               /\ m.currentMonthExpense = me

\* p is the beginning of q
IsPrefix(p, q) == Len(p) <= Len(q) /\ SubSeq(q, 1, Len(p)) = p

\* C16: every list of tips answered by POST /ai/tips (income, expense,
\* saving, or all) and the savings opportunities of the analysis hold at most
\* 5 entries, which are the first matching rules in the order evaluated.
C16_AtMostFivePrefix ==
  /\ (res.op = "getPersonalizedTips" /\ res.status = 200) =>
       LET u == gate.user
           exp == Find(expenses, u)
           m == calculateFinancialMetrics(Find(incomes, u), exp, now)
           rules == IF res.rel = "income" THEN incomeRules(m)
                    ELSE IF res.rel = "expense" THEN expenseRules(m, exp, now)
                    ELSE IF res.rel = "saving" THEN generateSavingTips(m)
                    ELSE incomeRules(m) \o expenseRules(m, exp, now)
                         \o generateSavingTips(m)
       IN  /\ Len(res.data.tips) <= 5
           /\ IsPrefix(res.data.tips, rules)
  /\ (res.op = "getSpendingAnalysis" /\ res.status = 200) =>
       /\ Len(res.data.analysis.savingsOpportunities) <= 5
       /\ IsPrefix(res.data.analysis.savingsOpportunities,
                   opportunityRules(Find(expenses, gate.user)))

\* the lists of C16 that are cut: each list of one category and the
\* opportunities
C16_SingleListsCut ==
  /\ (res.op = "getPersonalizedTips" /\ res.status = 200 /\ res.rel # "") =>
       LET u == gate.user
           exp == Find(expenses, u)
           m == calculateFinancialMetrics(Find(incomes, u), exp, now)
           rules == IF res.rel = "income" THEN incomeRules(m)
                    ELSE IF res.rel = "expense" THEN expenseRules(m, exp, now)
                    ELSE generateSavingTips(m)
       IN  /\ Len(res.data.tips) <= 5
           /\ IsPrefix(res.data.tips, rules)
  /\ (res.op = "getSpendingAnalysis" /\ res.status = 200) =>
       /\ Len(res.data.analysis.savingsOpportunities) <= 5
       /\ IsPrefix(res.data.analysis.savingsOpportunities,
                   opportunityRules(Find(expenses, gate.user)))

\* the savings rate of income ti and expense te is below k percent
\* (the rate is 0 without income)
RateBelow(ti, te, k) == IF ti > 0 THEN (ti - te) * 100 < k * ti ELSE 0 < k

\* the HIGH-priority tips of a list
HighTips(tips) == {tips[k] : k \in {j \in 1..Len(tips) : tips[j].priority = "HIGH"}}

\* net savings are below three months of expenses: those of the current
\* month, or a twelfth of all expenses when the month has none
Uncovered(u) ==
  LET ti == SumOf(incomes, OwnIds(incomes, u))
      te == SumOf(expenses, OwnIds(expenses, u))
      me == SumOf(expenses, InWindow(expenses, u, now))
  IN  IF me # 0 THEN ti - te < 3 * me ELSE 4 * (ti - te) < te

\* C17 as stated: with a savings rate below 10 the saving tips hold the
\* HIGH-priority tip to increase savings, and with a savings rate of 20 or
\* more they hold no HIGH-priority tip at all.
C17_NoHighAtTwenty ==
  (res.op = "getPersonalizedTips" /\ res.status = 200 /\ res.rel = "saving") =>
    LET u == gate.user
        ti == SumOf(incomes, OwnIds(incomes, u))
        te == SumOf(expenses, OwnIds(expenses, u))
    IN  /\ RateBelow(ti, te, 10) =>
             \E tip \in HighTips(res.data.tips) : tip.title = "Build Emergency Fund"
        /\ ~RateBelow(ti, te, 20) => HighTips(res.data.tips) = {}

\* C17: with a savings rate below 10 the saving tips hold the HIGH-priority
\* tip to increase savings ('Build Emergency Fund'); with a savings rate of
\* 20 or more they do not hold it, and their only HIGH-priority tip is
\* 'Strengthen Emergency Fund', given when net savings are below three months
\* of expenses.
C17_HighSavingsTipByRate ==
  (res.op = "getPersonalizedTips" /\ res.status = 200 /\ res.rel = "saving") =>
    LET u == gate.user
        ti == SumOf(incomes, OwnIds(incomes, u))
        te == SumOf(expenses, OwnIds(expenses, u))
    IN  /\ RateBelow(ti, te, 10) =>
             \E tip \in HighTips(res.data.tips) : tip.title = "Build Emergency Fund"
        /\ ~RateBelow(ti, te, 20) =>
             /\ \A tip \in HighTips(res.data.tips) :
                  tip.title = "Strengthen Emergency Fund"
             /\ HighTips(res.data.tips) # {} <=> Uncovered(u)

\* saving tips of an account saving a quarter of its income, with the
\* HIGH-priority tip of the emergency fund
C17_Witness ==
  /\ res.op = "getPersonalizedTips"
  /\ res.status = 200
  /\ res.rel = "saving"
  /\ SumOf(incomes, OwnIds(incomes, gate.user)) = 20
  /\ SumOf(expenses, OwnIds(expenses, gate.user)) = 15
  /\ HighTips(res.data.tips) # {}

\* the outcomes of the call to the provider that deliver no text
FailedOutcomes == ExternalOutcomes \ {"content"}

\* C18: when the call to the provider is unconfigured or fails (network
\* error, timeout, error status, malformed body), the insight, summary and
\* query requests of an authenticated account are answered 200 with success
\* and the fallback computed from the account's own data.
C18_FallbackOnExternalFailure ==
  (gate.next /\ gate.user # NullUser /\ res.rel \in FailedOutcomes) =>
    /\ res.op = "getFinancialInsightsPeriod" =>
         /\ res.status = 200
         /\ res.data.success
         /\ LET p == getPeriodData(gate.user, now)
            IN  res.data.insights =
                  generateFallbackInsights(
                    prepareAnalysisData(p.currentData, p.previousData))
    /\ res.op = "getQuickSummary" =>
         /\ res.status = 200
         /\ res.data.success
         /\ res.data.summary = generateFallbackSummary(res.data.data)
    /\ res.op = "aiQuery" =>
         /\ res.status = 200
         /\ res.data.success
         /\ res.data.reply.source \in {"fallback", "rules"}

\* the part of C18 that holds: the query requests, and every request whose
\* call is unconfigured, rejected, or answered without choices
C18_FallbackUnlessContentMissing ==
  (gate.next /\ gate.user # NullUser /\ res.rel \in FailedOutcomes) =>
    /\ (res.op \in {"getFinancialInsightsPeriod", "getQuickSummary", "aiQuery"}) =>
         res.status = 200 /\ res.data.success
    /\ (res.op = "getFinancialInsightsPeriod" /\ res.rel # "noContent") =>
         res.data.insights.source = "fallback"
    /\ (res.op = "getQuickSummary" /\ res.rel # "noContent") =>
         res.data.summary.source = "fallback"
    /\ res.op = "aiQuery" => res.data.reply.source \in {"fallback", "rules"}

(***************************************************************************)
(* uploadToCloudinary.                                                     *)
(***************************************************************************)
\* what holds of a call of uploadToCloudinary at every moment: at most 3
\* attempts, none after a success, a delay of 2 s set after each failed
\* attempt but the third, the first success returned, the error of the
\* third attempt thrown
UploadSafe ==
  LET n == Len(upload.attempts)
  IN  /\ n <= 3
      /\ \A k \in 1..n : upload.attempts[k] = "ok" => k = n
      /\ \A k \in 1..Len(upload.delays) : upload.delays[k] = 2000
      /\ upload.pc = "attempt" => Len(upload.delays) = n /\ n < 3
      /\ upload.pc = "wait" => Len(upload.delays) = n /\ n < 3
      /\ upload.pc = "returned" =>
           /\ upload.attempts[n] = "ok"
           /\ upload.result = upload.file
           /\ Len(upload.delays) = n - 1
      /\ upload.pc = "thrown" =>
           /\ n = 3
           /\ \A k \in 1..n : upload.attempts[k] # "ok"
           /\ upload.lastError = upload.attempts[3]
           /\ Len(upload.delays) = 2

\* C19: a call of uploadToCloudinary terminates, by returning or by
\* throwing, and at every moment it has made at most 3 attempts, none after
\* a success, with a delay of 2 s between consecutive attempts and none
\* after the last; it returns the first success and throws the error of the
\* third failed attempt.
C19_UploadTerminates ==
  /\ []UploadSafe
  /\ <>(upload.pc \in {"returned", "thrown"})

\* a call that threw after three failed attempts with different errors
C19_Witness ==
  /\ upload.pc = "thrown"
  /\ upload.attempts = <<"timeout", "network", "api">>
  /\ upload.lastError = "api"
  /\ upload.delays = <<2000, 2000>>

(***************************************************************************)
(* The optional gate.                                                      *)
(***************************************************************************)
\* protect would accept request r: it calls next for a token that verifies
\* and resolves to an account that exists and is not suspended
WouldAccept(us, r, t) ==
  LET p == protect(us, r, t)
  IN  p.next /\ p.user # NullUser /\ us[p.user].status # "suspended"

\* C20: the optional gate answers nothing and calls next for every request,
\* and it attaches an account exactly to the requests that protect would
\* accept.
C20_OptionalLikeProtect ==
  [][\A r \in Credentials :
       OptionalGate(r) =>
         /\ gate'.next
         /\ res'.status = 0
         /\ gate'.user # NullUser <=> WouldAccept(users, r, now)]_vars

\* the part of C20 that holds: the optional gate answers nothing and calls
\* next, and without a Bearer token that verifies it attaches no account
C20_OptionalNeverRejects ==
  [][\A r \in Credentials :
       OptionalGate(r) =>
         /\ gate'.next
         /\ res'.status = 0
         /\ gate'.user # NullUser =>
              /\ r.authorization.present
              /\ jwtVerify(r.authorization.token, now).name = "ok"
              /\ gate'.user \in DOMAIN users]_vars

(***************************************************************************)
(* The credential the gate reads.                                          *)
(***************************************************************************)
\* a token that verifies at t and resolves to a stored, active account
Usable(us, tok, t) ==
  /\ jwtVerify(tok, t).name = "ok"
  /\ UserFindById(us, jwtVerify(tok, t).id) # NullUser
  /\ us[UserFindById(us, jwtVerify(tok, t).id)].status # "suspended"

HasBearer(r) == r.authorization.present /\ r.authorization.scheme = "Bearer"

C22_FreshAccountNoIncome ==
  /\ (res.op \in {"register", "registerSampleIncome"} /\ res.status = 201)
       => OwnIds(incomes, userSeq) = {}
  /\ (res.op = "login" /\ res.status = 200 /\ res.data._id = 2)
       => res.data.stats.incomeCount = 0

\* registrations served by controllers/authController create no Income, and
\* every login reports the number of Incomes the account owns
C22_CurrentRegisterNoIncome ==
  /\ (res.op = "register" /\ res.status = 201)
       => OwnIds(incomes, userSeq) = {}
  /\ (res.op = "login" /\ res.status = 200)
       => res.data.stats.incomeCount
            = Cardinality(OwnIds(incomes, res.data._id))

(***************************************************************************)
(* The exported report.                                                    *)
(***************************************************************************)
\* the items render, one for one and numbered from 1, the documents ids of
\* the collection
RendersExactly(items, coll, ids) ==
  /\ Len(items) = Cardinality(ids)
  /\ \E f \in [1..Len(items) -> ids] :
       /\ \A j, k \in 1..Len(items) : f[j] = f[k] => j = k
       /\ \A k \in 1..Len(items) :
            /\ items[k].index = k
            /\ items[k].amount = coll[f[k]].amount
            /\ items[k].category = coll[f[k]].category
            /\ items[k].date = toLocaleDateString(coll[f[k]].date)
            /\ (k < Len(items)) => coll[f[k]].date >= coll[f[k + 1]].date

ReportedStore == IF res.op = "downloadExpenses" THEN expenses ELSE incomes

\* C23: the report of account A has one item per transaction of A and none
\* of another account, in date-descending order, and its footer gives the
\* sum of the amounts of exactly those transactions and their number (0 and
\* 0 when A has none).
C23_ReportOfOwnTransactions ==
  (res.op \in {"downloadExpenses", "downloadIncomes"} /\ res.status = 200)
    => /\ RendersExactly(res.data.items, ReportedStore,
                         OwnIds(ReportedStore, gate.user))
       /\ res.data.total = SumOf(ReportedStore, OwnIds(ReportedStore, gate.user))
       /\ res.data.records = Cardinality(OwnIds(ReportedStore, gate.user))

C23_Witness ==
  /\ res.op = "downloadExpenses" /\ res.status = 200
  /\ Len(res.data.items) = 1 /\ res.data.total > 0
  /\ \E i \in DOMAIN expenses : expenses[i].user # gate.user

(***************************************************************************)
(* The envelope of the JSON responses.                                     *)
(***************************************************************************)
\* the last request was answered with a JSON body
JsonAnswered ==
  /\ res.op \notin {"none", "optional"}
  /\ ~(res.op \in {"downloadExpenses", "downloadIncomes"} /\ res.status = 200)

\* C24: every JSON response, of every endpoint, carries a boolean success
\* key: true on success, false on error.
C24_EnvelopeEverywhere ==
  JsonAnswered
    => res.success = (IF res.status < 400 THEN "true" ELSE "false")

\* the responses of the gate, of the account handlers and of the AI handlers
\* carry the success key
C24_EnvelopeOutsideTransactions ==
  (JsonAnswered
   /\ (~gate.next
       \/ res.op \in {"register", "login", "deleteAccount", "updateProfile",
                       "getPersonalizedTips", "getFinancialInsightsPeriod",
                       "aiManage"}))
    => res.success = (IF res.status < 400 THEN "true" ELSE "false")

(***************************************************************************)
(* The messages answered from their text.                                  *)
(***************************************************************************)
\* the step adds exactly one document, to coll, owned by account u, of a
\* category in cats, and leaves the other collection as it was
AddsOne(coll, collNext, other, otherNext, u, cats) ==
  /\ otherNext = other
  /\ \E i \in DOMAIN collNext :
       /\ i \notin DOMAIN coll
       /\ DOMAIN collNext = DOMAIN coll \cup {i}
       /\ \A j \in DOMAIN coll : collNext[j] = coll[j]
       /\ collNext[i].user = u
       /\ collNext[i].category \in cats

\* C25: a message that asks to add an income, or an expense, and states an
\* amount is answered with success, having created exactly one record, owned
\* by the requester, of a category the model's enum accepts.
C25_TextAddCreatesOne ==
  [][\A r \in HeldBearer :
       /\ \A m \in AddIncomeMessages :
            (amountMatch(m) > 0 /\ AiQuery(r, m, "unconfigured"))
              => /\ res'.status = 200 /\ res'.success = "true"
                 /\ AddsOne(incomes, incomes', expenses, expenses',
                            ReqUser(r), IncomeCategories)
       /\ \A m \in AddExpenseMessages :
            (amountMatch(m) > 0 /\ AiQuery(r, m, "unconfigured"))
              => /\ res'.status = 200 /\ res'.success = "true"
                 /\ AddsOne(expenses, expenses', incomes, incomes',
                            ReqUser(r), ExpenseCategories)]_vars

\* the expense half: a message that asks to add an expense and states an
\* amount creates exactly one Expense of the requester
C25_TextExpenseCreatesOne ==
  [][\A r \in HeldBearer, m \in AddExpenseMessages :
       (amountMatch(m) > 0 /\ AiQuery(r, m, "unconfigured"))
         => /\ res'.status = 200 /\ res'.success = "true"
            /\ AddsOne(expenses, expenses', incomes, incomes',
                       ReqUser(r), ExpenseCategories)]_vars

\* an expense was added from a text
C25_ExpenseAdded ==
  /\ res.op = "aiQuery" /\ res.status = 200
  /\ \E i \in DOMAIN expenses : expenses[i].category = "Food"

\* C29: a message that asks a question ('how much', 'show me', ...) is
\* answered by the query handler and leaves the stored Incomes and Expenses
\* as they were, also when it contains a number or the word 'spent'.
C29_QueryLeavesStores ==
  [][\A r \in HeldBearer, m \in QueryMessages :
       AiQuery(r, m, "unconfigured")
         => /\ incomes' = incomes /\ expenses' = expenses
            /\ res'.status = 200 /\ res'.data.reply.type = "query"]_vars

\* a question that holds none of the words of an addition is answered by
\* the query handler and writes nothing
C29_QueryWithoutAddWord ==
  [][\A r \in HeldBearer, m \in QueryMessages :
       (~IncludesAny(ToLowerCase(m), AddPatterns)
        /\ AiQuery(r, m, "unconfigured"))
         => /\ incomes' = incomes /\ expenses' = expenses
            /\ res'.status = 200 /\ res'.data.reply.type = "query"]_vars

(***************************************************************************)
(* The savings rate without income.                                        *)
(***************************************************************************)
\* the income of the month of the account of the last request
MonthIncomeOfRequester ==
  generateFinancialSummaryFirst(SortByDateDesc(Find(incomes, gate.user)),
                                SortByDateDesc(Find(expenses, gate.user)),
                                now).currentMonthIncome

\* C30: the savings rate is 0 when the income is 0, never NaN or infinite:
\* no answer states such a rate and none praises the savings rate of an
\* account without income.
C30_SavingsRateZeroWithoutIncome ==
  /\ (res.op \in {"savingsAdviceFirst", "savingsAdvice"} /\ res.status = 200)
       => /\ res.data.message.rate.d # 0
          /\ MonthIncomeOfRequester = 0
               => /\ res.data.message.rate.n = 0
                  /\ res.data.message.advice
                       \notin {"good_start", "great", "excellent"}
  /\ (res.op = "getFinancialInsightsPeriod" /\ res.status = 200
      /\ res.data.summary.currentIncome = 0)
       => \A k \in DOMAIN res.data.insights.parts :
            res.data.insights.parts[k] # "savings_good"

\* the handlers that guard the division: the advice of the second
\* controller states no rate that is NaN or infinite and asks for income
\* when there is none, and the rate of calculateFinancialMetrics is 0
\* without income
C30_GuardedHandlers ==
  /\ (res.op = "savingsAdvice" /\ res.status = 200)
       => /\ res.data.message.rate.d # 0
          /\ MonthIncomeOfRequester = 0
               => res.data.message.advice = "no_income"
  /\ \A u \in DOMAIN users :
       LET m == calculateFinancialMetrics(Find(incomes, u), Find(expenses, u),
                                          now)
       IN  /\ m.savingsRate.d # 0
           /\ m.totalIncome = 0 => m.savingsRate.n = 0

(***************************************************************************)
(* The profile image.                                                      *)
(***************************************************************************)
\* C28: when updateProfile answers an error, the account is as it was and
\* its stored profileImage still references an existing asset.
C28_ErrorLeavesAccountAndImage ==
  [][(res'.op = "updateProfile" /\ res'.status >= 400 /\ gate'.next
      /\ gate'.user \in DOMAIN users)
       => /\ users' = users
          /\ AssetStored(assets, users[gate'.user].profileImage)
               => AssetStored(assets', users'[gate'.user].profileImage)]_vars

\* when updateProfile answers an error, the account document is as it was
C28_ErrorLeavesAccount ==
  [][(res'.op = "updateProfile" /\ res'.status >= 400) => users' = users]_vars

\* an update of the image failed for an account that had an image
C28_FailedUploadWithImage ==
  /\ res.op = "updateProfile" /\ res.status = 400
  /\ res.msg = "Error uploading image to cloud storage"
  /\ gate.user \in DOMAIN users
  /\ users[gate.user].profileImage # ""

(***************************************************************************)
(* Transactions and the deletion of their account.                         *)
(***************************************************************************)
\* C26: under every interleaving of the requests, every stored Income and
\* Expense references an existing account.
C26_TransactionsReferenceAccounts ==
  /\ \A i \in DOMAIN incomes : incomes[i].user \in DOMAIN users
  /\ \A i \in DOMAIN expenses : expenses[i].user \in DOMAIN users

\* an Income of a deleted account is stored: its request passed protect
\* before the deletion and wrote after it
C26_IncomeOfDeletedAccount ==
  \E i \in DOMAIN incomes : incomes[i].user \notin DOMAIN users

\* a handler that runs while its account exists leaves no Income without
\* account
C26_IncomeWrittenForStoredAccount ==
  [][\A p \in InFlightRequests :
       (RunHandler(p) /\ p.user \in DOMAIN users
        /\ \A i \in DOMAIN incomes : incomes[i].user \in DOMAIN users)
         => \A i \in DOMAIN incomes' : incomes'[i].user \in DOMAIN users']_vars

(***************************************************************************)
(* The emails of the accounts under interleaving.                          *)
(***************************************************************************)
\* the accounts that hold the email e, ignoring letter case and surrounding
\* whitespace
Holders(us, e) ==
  {u \in DOMAIN us :
     Trim(ToLowerCase(us[u].email)) = Trim(ToLowerCase(e))}

\* the email a request in flight claims
ClaimedEmail(p) ==
  IF p.op = "register" THEN p.body.email ELSE p.body.fields.email

====
